---- MODULE Spec2Model ----
(***************************************************************************)
(* A model of the furex flexbox layout: the View tree (children lists,     *)
(* parent back-references, dirty flags, frames), the tick (Update / Draw)  *)
(* and the layout pass of flexEmbed.layout.                                *)
(*                                                                         *)
(* float64 values are modelled as exact rationals <<n, d>> in lowest terms *)
(* with d >= 0; d = 0 encodes the IEEE special values: <<1,0>> = +Inf,     *)
(* <<-1,0>> = -Inf, <<0,0>> = NaN.  Rounding and the sign of zero are not  *)
(* modelled.                                                               *)
(***************************************************************************)
EXTENDS Integers, Sequences, FiniteSets, TLC

----------------------------------------------------------------------------
(* float64 arithmetic *)

RECURSIVE GCD(_, _)
GCD(a, b) == IF b = 0 THEN a ELSE GCD(b, a % b)

IAbs(i) == IF i < 0 THEN -i ELSE i
ISign(i) == IF i < 0 THEN -1 ELSE IF i > 0 THEN 1 ELSE 0

Norm(n, d) ==
    IF d = 0 THEN <<ISign(n), 0>>
    ELSE LET s == IF d < 0 THEN -1 ELSE 1
             g == GCD(IAbs(n), IAbs(d))
         IN <<(s * ISign(n)) * (IAbs(n) \div g), IAbs(d) \div g>>

F(i) == <<i, 1>>
Zero == F(0)
One == F(1)
NaN == <<0, 0>>
PosInf == <<1, 0>>
NegInf == <<-1, 0>>

IsNaN(a) == a = NaN
IsInf(a) == a[2] = 0 /\ a[1] # 0
IsFinite(a) == a[2] # 0

FNeg(a) == <<-a[1], a[2]>>
FAdd(a, b) ==
    IF IsNaN(a) \/ IsNaN(b) THEN NaN
    ELSE IF IsInf(a) THEN (IF IsInf(b) /\ a # b THEN NaN ELSE a)
    ELSE IF IsInf(b) THEN b
    ELSE Norm(a[1] * b[2] + b[1] * a[2], a[2] * b[2])
FSub(a, b) == FAdd(a, FNeg(b))
FMul(a, b) == Norm(a[1] * b[1], a[2] * b[2])
FRecip(a) ==
    IF a[1] = 0 THEN (IF a[2] = 0 THEN NaN ELSE PosInf)
    ELSE IF a[1] > 0 THEN <<a[2], a[1]>> ELSE <<-a[2], -a[1]>>
FDiv(a, b) == FMul(a, FRecip(b))
FLt(a, b) ==
    /\ ~IsNaN(a)
    /\ ~IsNaN(b)
    /\ IF a[2] = 0 /\ b[2] = 0 THEN a[1] < b[1] ELSE a[1] * b[2] < b[1] * a[2]
FGt(a, b) == FLt(b, a)
FEq(a, b) == ~IsNaN(a) /\ ~IsNaN(b) /\ a = b
FNe(a, b) == ~FEq(a, b)
FLe(a, b) == FLt(a, b) \/ FEq(a, b)
FAbs(a) == <<IAbs(a[1]), a[2]>>
\* math.Min / math.Max: NaN if either argument is NaN
FMin(a, b) == IF IsNaN(a) \/ IsNaN(b) THEN NaN ELSE IF FLt(a, b) THEN a ELSE b
FMax(a, b) == IF IsNaN(a) \/ IsNaN(b) THEN NaN ELSE IF FLt(a, b) THEN b ELSE a

RECURSIVE FSum(_)
FSum(s) == IF s = <<>> THEN Zero ELSE FAdd(FSum(SubSeq(s, 1, Len(s) - 1)), s[Len(s)])

----------------------------------------------------------------------------
(* package geo *)

\* a Rectangle is <<Min.X, Min.Y, Max.X, Max.Y>>
Rect(x0, y0, x1, y1) ==
    LET sx == FGt(x0, x1)
        sy == FGt(y0, y1)
    IN <<IF sx THEN x1 ELSE x0, IF sy THEN y1 ELSE y0,
         IF sx THEN x0 ELSE x1, IF sy THEN y0 ELSE y1>>
Dx(r) == FSub(r[3], r[1])
Dy(r) == FSub(r[4], r[2])
\* r.Add(p) with p = <<X, Y>>
RAdd(r, p) == <<FAdd(r[1], p[1]), FAdd(r[2], p[2]), FAdd(r[3], p[1]), FAdd(r[4], p[2])>>
RMin(r) == <<r[1], r[2]>>
ZR == <<Zero, Zero, Zero, Zero>>
\* an integer rectangle, for writing expected frames
IR(a, b, c, d) == <<F(a), F(b), F(c), F(d)>>

----------------------------------------------------------------------------
(* enumerations of flex.go *)

Row == 0
Column == 1
JustifyStart == 0
JustifyEnd == 1
JustifyCenter == 2
JustifySpaceBetween == 3
JustifySpaceAround == 4
AlignItemStretch == 0
AlignItemStart == 1
AlignItemEnd == 2
AlignItemCenter == 3
NoWrap == 0
Wrap == 1
WrapReverse == 2
AlignContentStart == 0
AlignContentEnd == 1
AlignContentCenter == 2
AlignContentSpaceBetween == 3
AlignContentSpaceAround == 4
AlignContentStretch == 5
PositionStatic == 0
PositionAbsolute == 1
DisplayFlex == 0
DisplayNone == 1

----------------------------------------------------------------------------
(* the View heap *)

\* number of View objects the program has constructed
NumViews == 3
Nodes == 1..NumViews
\* the nil *View
NoView == 0
\* a nil *float64 is <<>>, a set one is <<value>> (func Float)
NilFloat == <<>>
Float(x) == <<x>>

\* &View{}: the zero value of every field
ZeroView ==
    [Left |-> Zero, Right |-> NilFloat, Top |-> Zero, Bottom |-> NilFloat,
     Width |-> Zero, WidthInPct |-> Zero, Height |-> Zero, HeightInPct |-> Zero,
     MarginLeft |-> Zero, MarginTop |-> Zero, MarginRight |-> Zero, MarginBottom |-> Zero,
     Position |-> PositionStatic, Direction |-> Row, Wrap |-> NoWrap,
     Justify |-> JustifyStart, AlignItems |-> AlignItemStretch,
     AlignContent |-> AlignContentStart, Grow |-> Zero, Shrink |-> Zero,
     Display |-> DisplayFlex, Hidden |-> FALSE,
     children |-> <<>>, isDirty |-> FALSE, frame |-> ZR,
     calculatedWidth |-> Zero, calculatedHeight |-> Zero,
     hasParent |-> FALSE, parent |-> NoView]

VARIABLES
    views,    \* the heap: views[n] is the View object n
    crashed,  \* "no", or how the process ended: "panic" or "hang"
    op,       \* the last operation called, with its arguments and result, and
              \* whether it repeats the call before it
    threads   \* the goroutines inside Update or Draw: threads.stack[t] is the
              \* call stack of goroutine t, threads.lock[n] the goroutine that
              \* holds the mutex of view n, or 0

vars == <<views, crashed, op, threads>>

\* the items of a children list, in order
Items(V) == [i \in 1..Len(V.children) |-> V.children[i].item]
ItemSet(V) == {V.children[i].item : i \in 1..Len(V.children)}

\* the nodes reachable from n through children lists (n included)
RECURSIVE ReachFrom(_, _, _)
ReachFrom(vs, S, k) ==
    IF k = 0 THEN S
    ELSE ReachFrom(vs, S \cup UNION {ItemSet(vs[m]) : m \in S}, k - 1)
Subtree(vs, n) == ReachFrom(vs, {n}, Cardinality(DOMAIN vs))
Descendants(vs, n) == ReachFrom(vs, ItemSet(vs[n]), Cardinality(DOMAIN vs))

----------------------------------------------------------------------------
(* helpers of View and flexEmbed *)

width(V) == IF FEq(V.Width, Zero) THEN V.calculatedWidth ELSE V.Width
height(V) == IF FEq(V.Height, Zero) THEN V.calculatedHeight ELSE V.Height
isWidthFixed(V) == FNe(V.Width, Zero) \/ FNe(V.WidthInPct, Zero)
isHeightFixed(V) == FNe(V.Height, Zero) \/ FNe(V.HeightInPct, Zero)

\* the switches of flexEmbed panic on any other direction
BadDirection(dir) == dir \notin {Row, Column}
mainSize(dir, x, y) == IF dir = Row THEN x ELSE y
crossSize(dir, x, y) == IF dir = Row THEN y ELSE x
isCrossSizeFixed(dir, V) == IF dir = Row THEN isHeightFixed(V) ELSE isWidthFixed(V)
mainMargin(dir, V) ==
    IF dir = Row THEN <<V.MarginLeft, V.MarginRight>> ELSE <<V.MarginTop, V.MarginBottom>>
crossMargin(dir, V) ==
    IF dir = Row THEN <<V.MarginTop, V.MarginBottom>> ELSE <<V.MarginLeft, V.MarginRight>>
flexBaseSize(dir, V) == mainSize(dir, width(V), height(V))

\* containerEmbed.setFrame: store the frame and mark the view dirty, so that
\* the view re-runs its own layout pass inside the new frame
setFrame(V, fr) == [V EXCEPT !.frame = fr, !.isDirty = TRUE]

\* a faulty variant of the offsets rule: Right and Bottom are ignored
absoluteLeftTop(cf, C) ==
    Rect(FAdd(cf[1], C.Left), FAdd(cf[2], C.Top),
         FAdd(FAdd(cf[1], C.Left), C.Width), FAdd(FAdd(cf[2], C.Top), C.Height))

\* the frame of an absolutely positioned child c inside the container frame cf
absoluteBounds(cf, C) ==
    LET x == IF FNe(C.Left, Zero) THEN FAdd(cf[1], C.Left)
             ELSE IF C.Right # NilFloat THEN FSub(FSub(cf[3], C.Right[1]), C.Width)
             ELSE cf[1]
        y == IF FNe(C.Top, Zero) THEN FAdd(cf[2], C.Top)
             ELSE IF C.Bottom # NilFloat THEN FSub(FSub(cf[4], C.Bottom[1]), C.Height)
             ELSE cf[2]
    IN Rect(x, y, FAdd(x, C.Width), FAdd(y, C.Height))

\* "if x > max { max = x }" over a sequence, from init
RECURSIVE FoldGt(_, _)
FoldGt(s, init) ==
    IF s = <<>> THEN init
    ELSE LET m == FoldGt(SubSeq(s, 1, Len(s) - 1), init)
         IN IF FGt(s[Len(s)], m) THEN s[Len(s)] ELSE m

\* "if x < min { min = x }" over a sequence, from init
RECURSIVE FoldLt(_, _)
FoldLt(s, init) ==
    IF s = <<>> THEN init
    ELSE LET m == FoldLt(SubSeq(s, 1, Len(s) - 1), init)
         IN IF FLt(s[Len(s)], m) THEN s[Len(s)] ELSE m

\* the cross size of a line of a multi-line container: s[j] = <<crossSize, margins>>
RECURSIVE lineCrossMax(_)
lineCrossMax(s) ==
    IF s = <<>> THEN Zero
    ELSE LET m == lineCrossMax(SubSeq(s, 1, Len(s) - 1))
         IN IF FGt(s[Len(s)][1], m) THEN FAdd(s[Len(s)][1], s[Len(s)][2]) ELSE m

\* "if max == -1 || x > max { max = x }" over a sequence, from -1
RECURSIVE crossExtentMax(_)
crossExtentMax(s) ==
    IF s = <<>> THEN F(-1)
    ELSE LET m == crossExtentMax(SubSeq(s, 1, Len(s) - 1))
         IN IF FEq(m, F(-1)) \/ FGt(s[Len(s)], m) THEN s[Len(s)] ELSE m

\* line collection: base[k] is element k's flexBaseSize, mm[k] its main margins;
\* a line is [child |-> <<element indices>>, mainSize |-> sum]
RECURSIVE collectLines(_, _, _, _, _, _)
collectLines(base, mm, cms, k, lines, line) ==
    IF k > Len(base)
    THEN IF Len(line.child) > 0 \/ Len(base) = 0 THEN Append(lines, line) ELSE lines
    ELSE LET hypotheticalMainSize == FAdd(base[k], mm[k])
         IN IF FGt(line.mainSize, Zero) /\ FGt(FAdd(line.mainSize, hypotheticalMainSize), cms)
            THEN collectLines(base, mm, cms, k + 1, Append(lines, line),
                              [child |-> <<k>>, mainSize |-> hypotheticalMainSize])
            ELSE collectLines(base, mm, cms, k + 1, lines,
                              [child |-> Append(line.child, k),
                               mainSize |-> FAdd(line.mainSize, hypotheticalMainSize)])

EmptyLine == [child |-> <<>>, mainSize |-> Zero]
lineCollection(wrap, base, mm, cms) ==
    IF wrap = NoWrap
    THEN <<[child |-> [k \in 1..Len(base) |-> k],
            mainSize |-> FSum([k \in 1..Len(base) |-> FAdd(base[k], mm[k])])]>>
    ELSE collectLines(base, mm, cms, 1, <<>>, EmptyLine)

\* 9.7 resolve the flexible lengths of one line: the main size of each child,
\* in line order.  size[k] = mainSize(width(), height()) of element k, mm[k] its
\* main margins, growF / shrinkF its Grow and Shrink.
resolveFlexibleLengths(line, cms, size, mm, growF, shrinkF) ==
    LET ks == line.child
        n == Len(ks)
        grow == FLt(line.mainSize, cms)
        factor(k) == IF grow THEN growF[k] ELSE shrinkF[k]
        frozen(k) == FEq(factor(k), Zero)
        freeSpace == FSub(cms, FSum([j \in 1..n |-> FAdd(size[ks[j]], mm[ks[j]])]))
        remFreeSpace0 == FSub(cms, FSum([j \in 1..n |-> FAdd(size[ks[j]], mm[ks[j]])]))
        unfrozenFlexFactor ==
            FSum([j \in 1..n |-> IF frozen(ks[j]) THEN Zero ELSE factor(ks[j])])
        p == FMul(freeSpace, unfrozenFlexFactor)
        remFreeSpace ==
            IF FLt(unfrozenFlexFactor, One) /\ FLt(FAbs(p), FAbs(remFreeSpace0))
            THEN p ELSE remFreeSpace0
        sumScaledShrinkFactor ==
            FSum([j \in 1..n |-> IF frozen(ks[j]) THEN Zero
                                 ELSE FMul(size[ks[j]], shrinkF[ks[j]])])
        distributed(k) ==
            IF grow
            THEN FAdd(size[k], FMul(FDiv(growF[k], unfrozenFlexFactor), remFreeSpace))
            ELSE FSub(size[k],
                      FMul(FDiv(FMul(size[k], shrinkF[k]), sumScaledShrinkFactor),
                           FAbs(remFreeSpace)))
    IN [j \in 1..n |-> IF frozen(ks[j]) THEN size[ks[j]] ELSE distributed(ks[j])]

\* a faulty variant of the main-axis alignment: the children are packed at
\* the start whatever the justify mode
mainAxisPacked(justify, cms, ms, mm0, mmSum) ==
    [j \in 1..Len(ms) |->
        FAdd(FSum([i \in 1..(j - 1) |-> FAdd(ms[i], mmSum[i])]), mm0[j])]

\* 9.5 the main offset of each child of one line, in line order
mainAxisAlignment(justify, cms, ms, mm0, mmSum) ==
    LET n == Len(ms)
        total == FSum([j \in 1..n |-> FAdd(ms[j], mmSum[j])])
        remFree == FSub(cms, total)
        spacing == IF justify = JustifySpaceBetween THEN FDiv(remFree, F(n - 1))
                   ELSE IF justify = JustifySpaceAround THEN FDiv(remFree, F(n))
                   ELSE Zero
        off0 == IF justify = JustifyEnd THEN remFree
                ELSE IF justify = JustifyCenter THEN FDiv(remFree, F(2))
                ELSE IF justify = JustifySpaceAround THEN FDiv(spacing, F(2))
                ELSE Zero
        off(j) == FAdd(off0, FSum([i \in 1..(j - 1) |->
                                      FAdd(spacing, FAdd(ms[i], mmSum[i]))]))
    IN [j \in 1..n |-> FAdd(off(j), mm0[j])]

\* 9.6 the cross offset of a child inside its line
crossAxisAlignment(alignItems, lineOffset, lineSize, cs, cm) ==
    LET diff == FSub(FSub(lineSize, cs), FAdd(cm[1], cm[2]))
    IN IF FEq(cs, lineSize) THEN FAdd(lineOffset, cm[1])
       ELSE IF alignItems = AlignItemEnd THEN FAdd(FAdd(lineOffset, diff), cm[1])
       ELSE IF alignItems = AlignItemCenter
            THEN FAdd(FAdd(lineOffset, FDiv(diff, F(2))), cm[1])
       ELSE FAdd(lineOffset, cm[1])

\* 9.6.16 the amount line l (from 0) is moved by align-content
alignContentShift(alignContent, remFree, nLines, l) ==
    LET spacing == IF alignContent = AlignContentSpaceBetween
                   THEN FDiv(remFree, F(nLines - 1))
                   ELSE IF alignContent = AlignContentSpaceAround
                   THEN FDiv(remFree, F(nLines))
                   ELSE Zero
        off0 == IF alignContent = AlignContentEnd THEN remFree
                ELSE IF alignContent = AlignContentCenter THEN FDiv(remFree, F(2))
                ELSE IF alignContent = AlignContentSpaceAround THEN FDiv(spacing, F(2))
                ELSE Zero
    IN IF FGt(remFree, Zero) /\ alignContent # AlignContentStart
       THEN FAdd(off0, FSum([i \in 1..l |-> spacing]))
       ELSE Zero

\* The layout pass (flexEmbed.layout) is written as a chain of steps; each
\* step takes the record of what the earlier steps computed and adds to it.

\* absolutely positioned children get their frame (and bounds) at once
placeAbsolute(vs, v) ==
    LET f == vs[v]
        ch == f.children
        isAbs(i) == /\ vs[ch[i].item].Display # DisplayNone
                    /\ vs[ch[i].item].Position = PositionAbsolute
        vs1 == [n \in DOMAIN vs |->
                  IF \E i \in 1..Len(ch) : isAbs(i) /\ ch[i].item = n
                  THEN [vs[n] EXCEPT !.frame = absoluteBounds(f.frame, vs[n])]
                  ELSE vs[n]]
    IN [vs1 EXCEPT ![v].children =
           [i \in 1..Len(ch) |->
               IF isAbs(i)
               THEN [ch[i] EXCEPT !.bounds = absoluteBounds(f.frame, vs[ch[i].item])]
               ELSE ch[i]]]

\* a faulty variant of the child collection: absolute children stay in flow
displayedChildren(vs, V) ==
    LET isShown(i) == vs[V.children[i].item].Display # DisplayNone
    IN SelectSeq([i \in 1..Len(V.children) |-> i], isShown)

\* the children in flow: the indices, in order, of the children of V that are
\* neither display-none nor absolute
flowChildren(vs, V) ==
    LET isFlow(i) == /\ vs[V.children[i].item].Display # DisplayNone
                     /\ vs[V.children[i].item].Position # PositionAbsolute
    IN SelectSeq([i \in 1..Len(V.children) |-> i], isFlow)

\* a faulty variant of percentage resolution: the percentage of the container
\* size on both axes, never capped by the remaining space
resolveUncapped(vs, v, w, h) ==
    LET el == flowChildren(vs, vs[v])
        item == [k \in 1..Len(el) |-> vs[v].children[el[k]].item]
        plain(size, pct) == FDiv(FMul(size, pct), F(100))
    IN [n \in DOMAIN vs |->
          IF \E k \in 1..Len(el) : item[k] = n
          THEN [vs[n] EXCEPT
                  !.calculatedWidth = IF FGt(vs[n].WidthInPct, Zero)
                                      THEN plain(w, vs[n].WidthInPct) ELSE @,
                  !.calculatedHeight = IF FGt(vs[n].HeightInPct, Zero)
                                       THEN plain(h, vs[n].HeightInPct) ELSE @]
          ELSE vs[n]]

\* percentage resolution of the flow children of v, in a w x h container
resolvePercent(vs, v, w, h) ==
    LET dir == vs[v].Direction
        el == flowChildren(vs, vs[v])
        item == [k \in 1..Len(el) |-> vs[v].children[el[k]].item]
        outer(V) == IF dir = Row
                    THEN FAdd(FAdd(V.Width, V.MarginLeft), V.MarginRight)
                    ELSE FAdd(FAdd(V.Height, V.MarginTop), V.MarginBottom)
        remFree == FSub(mainSize(dir, w, h), FSum([k \in 1..Len(el) |-> outer(vs[item[k]])]))
        capped(size, pct) == FMin(FDiv(FMul(size, pct), F(100)), remFree)
        plain(size, pct) == FDiv(FMul(size, pct), F(100))
        pctWidth(V) ==
            IF dir = Row
            THEN IF FGt(remFree, Zero) /\ FGt(V.WidthInPct, Zero)
                 THEN capped(w, V.WidthInPct) ELSE V.calculatedWidth
            ELSE IF FGt(V.WidthInPct, Zero)
                 THEN plain(w, V.WidthInPct) ELSE V.calculatedWidth
        pctHeight(V) ==
            IF dir = Row
            THEN IF FGt(V.HeightInPct, Zero)
                 THEN plain(h, V.HeightInPct) ELSE V.calculatedHeight
            ELSE IF FGt(remFree, Zero) /\ FGt(V.HeightInPct, Zero)
                 THEN capped(h, V.HeightInPct) ELSE V.calculatedHeight
    IN [n \in DOMAIN vs |->
          IF \E k \in 1..Len(el) : item[k] = n
          THEN [vs[n] EXCEPT !.calculatedWidth = pctWidth(vs[n]),
                             !.calculatedHeight = pctHeight(vs[n])]
          ELSE vs[n]]

\* the elements of the pass: vs0 is the heap when the elements are built (their
\* flexBaseSize is read then), vs the heap after percentage resolution
elements(vs0, vs, v, w, h) ==
    LET f == vs[v]
        dir == f.Direction
        el == flowChildren(vs, f)
        m == Len(el)
        item == [k \in 1..m |-> f.children[el[k]].item]
    IN [v |-> v, dir |-> dir, wrap |-> f.Wrap, justify |-> f.Justify,
        alignItems |-> f.AlignItems, alignContent |-> f.AlignContent,
        frame |-> f.frame,
        containerMainSize |-> mainSize(dir, w, h),
        containerCrossSize |-> crossSize(dir, w, h),
        el |-> el, item |-> item,
        flexBaseSize |-> [k \in 1..m |-> flexBaseSize(dir, vs0[item[k]])],
        size |-> [k \in 1..m |-> mainSize(dir, width(vs[item[k]]), height(vs[item[k]]))],
        mainMargin |-> [k \in 1..m |-> mainMargin(dir, vs[item[k]])],
        crossMargin |-> [k \in 1..m |-> crossMargin(dir, vs[item[k]])],
        crossSize0 |-> [k \in 1..m |-> crossSize(dir, width(vs[item[k]]), height(vs[item[k]]))],
        crossFixed |-> [k \in 1..m |-> isCrossSizeFixed(dir, vs[item[k]])],
        Grow |-> [k \in 1..m |-> vs[item[k]].Grow],
        Shrink |-> [k \in 1..m |-> vs[item[k]].Shrink]]

\* 9.3 collect the elements into lines
withLines(e) ==
    LET m == Len(e.el)
        mm == [k \in 1..m |-> FAdd(e.mainMargin[k][1], e.mainMargin[k][2])]
        lines == lineCollection(e.wrap, e.flexBaseSize, mm, e.containerMainSize)
        lineOf == [k \in 1..m |->
                     CHOOSE l \in 1..Len(lines) :
                        \E j \in 1..Len(lines[l].child) : lines[l].child[j] = k]
    IN e @@ [mm |-> mm, lines |-> lines, lineOf |-> lineOf,
             posOf |-> [k \in 1..m |->
                          CHOOSE j \in 1..Len(lines[lineOf[k]].child) :
                             lines[lineOf[k]].child[j] = k]]

\* 9.3.6 resolve the flexible lengths of every line
withMainSizes(e) ==
    LET lineMain == [l \in 1..Len(e.lines) |->
                       resolveFlexibleLengths(e.lines[l], e.containerMainSize, e.size,
                                              e.mm, e.Grow, e.Shrink)]
    IN e @@ [lineMain |-> lineMain,
             mainSize |-> [k \in 1..Len(e.el) |-> lineMain[e.lineOf[k]][e.posOf[k]]]]

\* 9.4 cross sizes of the lines and of the elements
withCrossSizes(e) ==
    LET nl == Len(e.lines)
        cmSum == [k \in 1..Len(e.el) |-> FAdd(e.crossMargin[k][1], e.crossMargin[k][2])]
        lineCross0 ==
            [l \in 1..nl |->
                IF nl = 1 THEN e.containerCrossSize
                ELSE lineCrossMax([j \in 1..Len(e.lines[l].child) |->
                        <<e.crossSize0[e.lines[l].child[j]], cmSum[e.lines[l].child[j]]>>])]
        remCrossSize == FSub(e.containerCrossSize, FSum(lineCross0))
        stretchLines == e.alignContent = AlignContentStretch /\ FGt(remCrossSize, Zero)
        add == FDiv(remCrossSize, F(nl))
        lineCross == [l \in 1..nl |->
                        IF stretchLines THEN FAdd(lineCross0[l], add) ELSE lineCross0[l]]
    IN e @@ [cmSum |-> cmSum,
             lineCross |-> lineCross,
             lineOff |-> [l \in 1..nl |->
                            LET off == FSum([i \in 1..(l - 1) |-> lineCross0[i]])
                            IN IF stretchLines THEN FAdd(off, FMul(F(l - 1), add)) ELSE off],
             crossSize |-> [k \in 1..Len(e.el) |->
                              IF /\ e.alignItems = AlignItemStretch
                                 /\ ~e.crossFixed[k]
                                 /\ FLt(e.crossSize0[k], lineCross[e.lineOf[k]])
                              THEN FSub(lineCross[e.lineOf[k]], cmSum[k])
                              ELSE e.crossSize0[k]]]

\* 9.5, 9.6 alignment on both axes
withOffsets(e) ==
    LET nl == Len(e.lines)
        lineMainOff ==
            [l \in 1..nl |->
                mainAxisAlignment(e.justify, e.containerMainSize, e.lineMain[l],
                    [j \in 1..Len(e.lines[l].child) |-> e.mainMargin[e.lines[l].child[j]][1]],
                    [j \in 1..Len(e.lines[l].child) |-> e.mm[e.lines[l].child[j]]])]
        remFree == FSub(e.containerCrossSize, FAdd(e.lineOff[nl], e.lineCross[nl]))
        shift == [l \in 1..nl |-> alignContentShift(e.alignContent, remFree, nl, l - 1)]
    IN [e EXCEPT !.lineOff = [l \in 1..nl |-> FAdd(e.lineOff[l], shift[l])]]
       @@ [mainOffset |-> [k \in 1..Len(e.el) |-> lineMainOff[e.lineOf[k]][e.posOf[k]]],
           crossOffset |-> [k \in 1..Len(e.el) |->
                              FAdd(crossAxisAlignment(e.alignItems, e.lineOff[e.lineOf[k]],
                                       e.lineCross[e.lineOf[k]], e.crossSize[k],
                                       e.crossMargin[k]),
                                   shift[e.lineOf[k]])]]

\* a faulty variant of the intrinsic main size: the largest basis of all the
\* elements, not added up over the lines
largestBasis(e) == FoldGt(e.flexBaseSize, Zero)

\* 9.9.1 the intrinsic main size of the container
intrinsicMainSize(e) ==
    LET fraction(k) ==
            LET maxContentDiff == FSub(e.mainSize[k], e.flexBaseSize[k])
            IN IF FGt(maxContentDiff, Zero)
               THEN FDiv(maxContentDiff, FMax(One, e.Grow[k]))
               ELSE FDiv(maxContentDiff, FMax(One, FMul(e.Shrink[k], e.mainSize[k])))
        lineFraction == [l \in 1..Len(e.lines) |->
                           FoldGt([j \in 1..Len(e.lines[l].child) |->
                                      fraction(e.lines[l].child[j])], Zero)]
        expanded(k) ==
            IF FGt(lineFraction[e.lineOf[k]], Zero)
            THEN FAdd(e.flexBaseSize[k], FMul(e.Grow[k], lineFraction[e.lineOf[k]]))
            ELSE FSub(e.flexBaseSize[k],
                      FMul(FMul(e.Shrink[k], e.mainSize[k]), lineFraction[e.lineOf[k]]))
    IN FSum([l \in 1..Len(e.lines) |->
               FoldGt([j \in 1..Len(e.lines[l].child) |-> expanded(e.lines[l].child[j])],
                      Zero)])

\* 9.9.2 the intrinsic cross size of the container
intrinsicCrossSize(e) ==
    LET acc[l \in 0..Len(e.lines)] ==
            IF l = 0 THEN Zero
            ELSE LET ext == FAdd(e.lineOff[l], e.lineCross[l])
                     a == IF FLt(acc[l - 1], ext) THEN ext ELSE acc[l - 1]
                     ks == e.lines[l].child
                     min == FoldLt([j \in 1..Len(ks) |-> e.crossOffset[ks[j]]], PosInf)
                     max == crossExtentMax([j \in 1..Len(ks) |->
                                FAdd(e.crossOffset[ks[j]], e.crossSize[ks[j]])])
                 IN IF FLt(a, FSub(max, min)) THEN FSub(max, min) ELSE a
    IN acc[Len(e.lines)]

\* the container-relative rectangle of element k
elementBounds(e, k) ==
    IF e.dir = Row
    THEN Rect(e.mainOffset[k], e.crossOffset[k],
              FAdd(e.mainOffset[k], e.mainSize[k]), FAdd(e.crossOffset[k], e.crossSize[k]))
    ELSE Rect(e.crossOffset[k], e.mainOffset[k],
              FAdd(e.crossOffset[k], e.crossSize[k]), FAdd(e.mainOffset[k], e.mainSize[k]))

\* store the intrinsic sizes of the container and the frames of its flow
\* children (a view that is listed twice keeps the frame of its last entry)
commit(vs, e) ==
    LET m == Len(e.el)
        bounds == [k \in 1..m |-> elementBounds(e, k)]
        main == intrinsicMainSize(e)
        cross == intrinsicCrossSize(e)
        lastElem(n) == CHOOSE k \in 1..m :
                          e.item[k] = n /\ \A k2 \in 1..m : e.item[k2] = n => k2 <= k
        vs1 == [vs EXCEPT
                  ![e.v].calculatedWidth = IF e.dir = Row THEN main ELSE cross,
                  ![e.v].calculatedHeight = IF e.dir = Row THEN cross ELSE main,
                  ![e.v].children =
                      [i \in 1..Len(@) |->
                          IF \E k \in 1..m : e.el[k] = i
                          THEN [@[i] EXCEPT !.bounds =
                                   bounds[CHOOSE k \in 1..m : e.el[k] = i]]
                          ELSE @[i]]]
    IN [n \in DOMAIN vs |->
          IF \E k \in 1..m : e.item[k] = n
          THEN setFrame(vs1[n], RAdd(bounds[lastElem(n)], RMin(e.frame)))
          ELSE vs1[n]]

\* the measurements of a pass: every step applied to the elements
measure(vs0, vs, v, w, h) ==
    withOffsets(withCrossSizes(withMainSizes(withLines(elements(vs0, vs, v, w, h)))))

\* flexEmbed.layout: the layout pass of container v with size w x h on heap
\* vs; the result is the heap after the pass.  The caller has checked the
\* direction.
layout(vs, v, w, h) ==
    commit(resolvePercent(placeAbsolute(vs, v), v, w, h),
           measure(vs, resolvePercent(placeAbsolute(vs, v), v, w, h), v, w, h))

----------------------------------------------------------------------------
(* the tick: View.startLayout, View.Update, View.Draw *)

\* A run of the tick is a heap H:
\*   v       the views
\*   st      "ok", or "panic" once a panic has been raised, or "hang" once the
\*           call can no longer return; the rest of the call is then skipped
\*   passes  the views whose layout pass (startLayout) has been entered, in order
\*   locked  the views whose mutex is held
\*   active  the views with an Update or Draw call on the stack
\*   handled the views whose update handler has been invoked, in order
Heap(vs) ==
    [v |-> vs, st |-> "ok", passes |-> <<>>, locked |-> {}, active |-> {},
     handled |-> <<>>]

RECURSIVE startLayout(_, _)
RECURSIVE startLayoutChildren(_, _, _)

\* the loop "for _, child := range v.children" of startLayout, from index i
startLayoutChildren(H, v, i) ==
    IF H.st # "ok" \/ i > Len(H.v[v].children) THEN H
    ELSE LET c == H.v[v].children[i].item
         IN startLayoutChildren(
                IF H.v[c].Position = PositionStatic THEN startLayout(H, c) ELSE H,
                v, i + 1)

\* startLayout up to the loop: take the lock; a view without parent seeds its
\* frame from its own Left, Top, Width, Height
lockAndSeed(H, v) ==
    LET V == H.v[v]
    IN [H EXCEPT !.v = IF ~V.hasParent
                       THEN [H.v EXCEPT ![v].frame =
                                Rect(V.Left, V.Top, FAdd(V.Left, V.Width),
                                     FAdd(V.Top, V.Height))]
                       ELSE H.v,
                 !.passes = Append(@, v),
                 !.locked = @ \cup {v}]

\* startLayout after the loop: the layout pass of v, the dirty flag, the
\* deferred unlock
layoutAndUnlock(H, v) ==
    IF H.st = "hang" THEN H
    ELSE IF H.st = "panic" THEN [H EXCEPT !.locked = @ \ {v}]
    ELSE IF BadDirection(H.v[v].Direction)
    THEN [H EXCEPT !.st = "panic", !.locked = @ \ {v}]
    ELSE [H EXCEPT !.v = [layout(H.v, v, Dx(H.v[v].frame), Dy(H.v[v].frame))
                             EXCEPT ![v].isDirty = FALSE],
                   !.locked = @ \ {v}]

\* a view whose mutex is held further up the stack blocks for ever
startLayout(H, v) ==
    IF H.st # "ok" THEN H
    ELSE IF v \in H.locked THEN [H EXCEPT !.st = "hang"]
    ELSE layoutAndUnlock(startLayoutChildren(lockAndSeed(H, v), v, 1), v)

\* a faulty variant of the dirty test: the pass runs whether or not v is dirty
layoutAlways(H, v) == startLayout(H, v)

\* "if v.isDirty { v.startLayout() }"
layoutIfDirty(H, v) == IF H.v[v].isDirty THEN startLayout(H, v) ELSE H

\* entering and leaving an Update or Draw call
enter(H, v) == [H EXCEPT !.active = @ \cup {v}]
leave(H, v) == IF H.st = "hang" THEN H ELSE [H EXCEPT !.active = @ \ {v}]

\* a faulty variant of the loop of Update: the children are not visited
skipChildren(H, v, i) == H

\* View.processHandler: the update handler of v (HandleUpdate of an
\* UpdateHandler, Update of an Updater) is invoked; handled lists the views
\* in the order of the invocations
processHandler(H, v) ==
    IF H.st # "ok" THEN H ELSE [H EXCEPT !.handled = Append(@, v)]

RECURSIVE Update(_, _)
RECURSIVE UpdateChildren(_, _, _)

\* the loop "for _, v := range v.children" of Update, from index i
UpdateChildren(H, v, i) ==
    IF H.st # "ok" \/ i > Len(H.v[v].children) THEN H
    ELSE UpdateChildren(processHandler(Update(H, H.v[v].children[i].item),
                                       H.v[v].children[i].item),
                        v, i + 1)

\* a call that meets itself on the stack recurses without end
Update(H, v) ==
    IF H.st # "ok" THEN H
    ELSE IF v \in H.active THEN [H EXCEPT !.st = "hang"]
    ELSE leave(UpdateChildren(processHandler(layoutIfDirty(enter(H, v), v), v), v, 1), v)

RECURSIVE Draw(_, _)
RECURSIVE containerDraw(_, _, _)

\* containerEmbed.Draw: draws every child and calls its Draw, from index i
containerDraw(H, v, i) ==
    IF H.st # "ok" \/ i > Len(H.v[v].children) THEN H
    ELSE containerDraw(Draw(H, H.v[v].children[i].item), v, i + 1)

\* "if !v.Hidden && v.Display != DisplayNone { v.containerEmbed.Draw(screen) }"
drawChildren(H, v) ==
    IF H.st = "ok" /\ ~H.v[v].Hidden /\ H.v[v].Display # DisplayNone
    THEN containerDraw(H, v, 1)
    ELSE H

Draw(H, v) ==
    IF H.st # "ok" THEN H
    ELSE IF v \in H.active THEN [H EXCEPT !.st = "hang"]
    ELSE leave(drawChildren(layoutIfDirty(enter(H, v), v), v), v)

----------------------------------------------------------------------------
(* the tree operations of View *)

\* a faulty variant of Layout: the parent is not marked
markSelfOnly(vs, v) == [vs EXCEPT ![v].isDirty = TRUE]

\* View.Layout: mark the view, and its parent if it has one, dirty
Layout(vs, v) ==
    LET vs1 == [vs EXCEPT ![v].isDirty = TRUE]
    IN IF vs1[v].hasParent THEN [vs1 EXCEPT ![vs1[v].parent].isDirty = TRUE] ELSE vs1

NewChild(cv) == [item |-> cv, bounds |-> ZR]

addChild(vs, v, cv) ==
    LET vs1 == [vs EXCEPT ![v].children = Append(@, NewChild(cv)), ![v].isDirty = TRUE]
    IN [vs1 EXCEPT ![cv].hasParent = TRUE, ![cv].parent = v]

\* the index of the first child of V that is cv, or 0
childIndex(V, cv) ==
    IF \E i \in 1..Len(V.children) : V.children[i].item = cv
    THEN CHOOSE i \in 1..Len(V.children) :
            /\ V.children[i].item = cv
            /\ \A j \in 1..(i - 1) : V.children[j].item # cv
    ELSE 0

RemoveAt(s, i) == SubSeq(s, 1, i - 1) \o SubSeq(s, i + 1, Len(s))

\* a faulty variant of RemoveChild: the child keeps its back-reference
removeKeepingParent(vs, v, cv) ==
    LET i == childIndex(vs[v], cv)
    IN IF i = 0 THEN <<vs, FALSE>>
       ELSE <<[vs EXCEPT ![v].children = RemoveAt(@, i), ![v].isDirty = TRUE], TRUE>>

\* a faulty variant of RemoveChild: the parent is not marked dirty
removeSilently(vs, v, cv) ==
    LET i == childIndex(vs[v], cv)
    IN IF i = 0 THEN <<vs, FALSE>>
       ELSE <<[[vs EXCEPT ![v].children = RemoveAt(@, i)]
                  EXCEPT ![cv].hasParent = FALSE, ![cv].parent = NoView], TRUE>>

\* View.RemoveChild: <<heap, result>>
RemoveChild(vs, v, cv) ==
    LET i == childIndex(vs[v], cv)
    IN IF i = 0 THEN <<vs, FALSE>>
       ELSE LET vs1 == [vs EXCEPT ![v].children = RemoveAt(@, i), ![v].isDirty = TRUE]
            IN <<[vs1 EXCEPT ![cv].hasParent = FALSE, ![cv].parent = NoView], TRUE>>

RemoveAll(vs, v) ==
    [n \in DOMAIN vs |->
        LET V1 == IF n = v THEN [vs[n] EXCEPT !.isDirty = TRUE, !.children = <<>>] ELSE vs[n]
        IN IF n \in ItemSet(vs[v])
           THEN [V1 EXCEPT !.hasParent = FALSE, !.parent = NoView]
           ELSE V1]

\* View.PopChild: <<heap, the removed view or NoView>>
PopChild(vs, v) ==
    IF Len(vs[v].children) = 0 THEN <<vs, NoView>>
    ELSE LET c == vs[v].children[Len(vs[v].children)].item
             vs1 == [vs EXCEPT ![v].children = SubSeq(@, 1, Len(@) - 1),
                               ![v].isDirty = TRUE]
         IN <<[vs1 EXCEPT ![c].hasParent = FALSE, ![c].parent = NoView], c>>

----------------------------------------------------------------------------
(* the operations as actions *)

\* the number of operations a run performs
MaxOps == 3

\* the goroutines that call into the views besides the game loop
NumThreads == 2
Threads == 1..NumThreads

\* no goroutine is inside a call and no mutex is held
NoThreads == [lock |-> [n \in Nodes |-> 0], stack |-> [t \in Threads |-> <<>>]]

Call(name, v, arg, ret) ==
    [name |-> name, v |-> v, arg |-> arg, ret |-> ret, seq |-> op.seq + 1,
     again |-> (op.name = name /\ op.v = v), handled |-> <<>>]
NoCall ==
    [name |-> "new", v |-> NoView, arg |-> NoView, ret |-> NoView, seq |-> 0,
     again |-> FALSE, handled |-> <<>>]
Running == crashed = "no" /\ op.seq < MaxOps

\* a tick: the views are as the call leaves them
Tick(name, v, H) ==
    /\ Running
    /\ UNCHANGED threads
    /\ views' = H.v
    /\ crashed' = IF H.st = "ok" THEN "no" ELSE H.st
    /\ op' = [Call(name, v, NoView, H.passes) EXCEPT !.handled = H.handled]

DoUpdate(v) == Tick("Update", v, Update(Heap(views), v))
DoDraw(v) == Tick("Draw", v, Draw(Heap(views), v))

DoLayout(v) ==
    /\ Running
    /\ UNCHANGED threads
    /\ views' = Layout(views, v)
    /\ op' = Call("Layout", v, NoView, NoView)
    /\ UNCHANGED crashed

DoAddChild(v, cv) ==
    /\ Running
    /\ UNCHANGED threads
    /\ views' = addChild(views, v, cv)
    /\ op' = Call("AddChild", v, cv, v)
    /\ UNCHANGED crashed

\* v.AddTo(parent)
DoAddTo(v, parent) ==
    /\ Running
    /\ UNCHANGED threads
    /\ op' = Call("AddTo", v, parent, v)
    /\ IF views[v].hasParent
       THEN crashed' = "panic" /\ views' = views
       ELSE crashed' = crashed /\ views' = addChild(views, parent, v)

DoRemoveChild(v, cv) ==
    /\ Running
    /\ UNCHANGED threads
    /\ views' = RemoveChild(views, v, cv)[1]
    /\ op' = Call("RemoveChild", v, cv, RemoveChild(views, v, cv)[2])
    /\ UNCHANGED crashed

DoRemoveAll(v) ==
    /\ Running
    /\ UNCHANGED threads
    /\ views' = RemoveAll(views, v)
    /\ op' = Call("RemoveAll", v, NoView, NoView)
    /\ UNCHANGED crashed

DoPopChild(v) ==
    /\ Running
    /\ UNCHANGED threads
    /\ views' = PopChild(views, v)[1]
    /\ op' = Call("PopChild", v, NoView, PopChild(views, v)[2])
    /\ UNCHANGED crashed

\* a style setter: store the value, then v.Layout()
Setter(name, v, arg, stored) ==
    /\ Running
    /\ UNCHANGED threads
    /\ views' = Layout(stored, v)
    /\ op' = Call(name, v, arg, NoView)
    /\ UNCHANGED crashed

SetLeft(v, x) == Setter("SetLeft", v, x, [views EXCEPT ![v].Left = x])
SetRight(v, x) == Setter("SetRight", v, x, [views EXCEPT ![v].Right = Float(x)])
SetTop(v, x) == Setter("SetTop", v, x, [views EXCEPT ![v].Top = x])
SetBottom(v, x) == Setter("SetBottom", v, x, [views EXCEPT ![v].Bottom = Float(x)])
SetWidth(v, x) == Setter("SetWidth", v, x, [views EXCEPT ![v].Width = x])
SetHeight(v, x) == Setter("SetHeight", v, x, [views EXCEPT ![v].Height = x])
SetMarginLeft(v, x) == Setter("SetMarginLeft", v, x, [views EXCEPT ![v].MarginLeft = x])
SetMarginTop(v, x) == Setter("SetMarginTop", v, x, [views EXCEPT ![v].MarginTop = x])
SetMarginRight(v, x) == Setter("SetMarginRight", v, x, [views EXCEPT ![v].MarginRight = x])
SetMarginBottom(v, x) == Setter("SetMarginBottom", v, x, [views EXCEPT ![v].MarginBottom = x])
SetPosition(v, x) == Setter("SetPosition", v, x, [views EXCEPT ![v].Position = x])
SetDirection(v, x) == Setter("SetDirection", v, x, [views EXCEPT ![v].Direction = x])
SetWrap(v, x) == Setter("SetWrap", v, x, [views EXCEPT ![v].Wrap = x])
SetJustify(v, x) == Setter("SetJustify", v, x, [views EXCEPT ![v].Justify = x])
SetAlignItems(v, x) == Setter("SetAlignItems", v, x, [views EXCEPT ![v].AlignItems = x])
SetAlignContent(v, x) == Setter("SetAlignContent", v, x, [views EXCEPT ![v].AlignContent = x])
SetGrow(v, x) == Setter("SetGrow", v, x, [views EXCEPT ![v].Grow = x])
SetShrink(v, x) == Setter("SetShrink", v, x, [views EXCEPT ![v].Shrink = x])
SetDisplay(v, x) == Setter("SetDisplay", v, x, [views EXCEPT ![v].Display = x])
SetHidden(v, x) == Setter("SetHidden", v, x, [views EXCEPT ![v].Hidden = x])

\* one tick of the game loop: Update, then Draw, on the same view
DoTick(v) == Tick("Tick", v, Draw(Update(Heap(views), v), v))

----------------------------------------------------------------------------
(* Spec: three views, attached, detached, restyled and ticked *)

\* the views as constructed: a 100x100 centring container, a 60x40 column
\* with offsets and a margin, and a 20x10 item
Built ==
    [n \in Nodes |->
        IF n = 1 THEN [ZeroView EXCEPT !.Width = F(100), !.Height = F(100),
                                       !.Justify = JustifyCenter,
                                       !.AlignItems = AlignItemCenter]
        ELSE IF n = 2 THEN [ZeroView EXCEPT !.Width = F(60), !.Height = F(40),
                                            !.Left = F(5), !.Top = F(7),
                                            !.Direction = Column,
                                            !.MarginLeft = F(4),
                                            !.Justify = JustifyEnd,
                                            !.AlignItems = AlignItemStart]
        ELSE [ZeroView EXCEPT !.Width = F(20), !.Height = F(10)]]

\* the trees the run starts from, as sequences of AddChild calls <<parent, child>>
Shapes == {<<>>, <<<<1, 2>>>>, <<<<1, 2>>, <<1, 3>>>>, <<<<1, 2>>, <<2, 3>>>>}

RECURSIVE Attach(_, _)
Attach(vs, calls) ==
    IF calls = <<>> THEN vs
    ELSE addChild(Attach(vs, SubSeq(calls, 1, Len(calls) - 1)),
                  calls[Len(calls)][1], calls[Len(calls)][2])

Init ==
    /\ \E shape \in Shapes, pos \in {PositionStatic, PositionAbsolute} :
          views = Attach([Built EXCEPT ![2].Position = pos], shape)
    /\ crashed = "no"
    /\ op = NoCall
    /\ threads = NoThreads

Positions == {PositionStatic, PositionAbsolute}

Next ==
    \/ \E v \in Nodes : DoUpdate(v)
    \/ \E v \in Nodes : DoDraw(v)
    \/ \E v \in Nodes : DoLayout(v)
    \/ \E v \in Nodes, cv \in Nodes : DoAddChild(v, cv)
    \/ \E v \in Nodes, parent \in Nodes : DoAddTo(v, parent)
    \/ \E v \in Nodes, cv \in Nodes : DoRemoveChild(v, cv)
    \/ \E v \in Nodes : DoRemoveAll(v)
    \/ \E v \in Nodes : DoPopChild(v)
    \/ \E v \in Nodes : SetLeft(v, F(10))
    \/ \E v \in Nodes : SetPosition(v, PositionAbsolute)
    \/ \E v \in Nodes : SetDisplay(v, DisplayNone)

Spec == Init /\ [][Next]_vars

----------------------------------------------------------------------------
(* SpecNesting: the game loop ticks the root; in between, views are moved, *)
(* resized and switched between static and absolute                        *)

NextNesting ==
    \/ DoUpdate(1)
    \/ DoTick(1)
    \/ \E v \in Nodes : SetLeft(v, F(10))
    \/ \E v \in Nodes : SetTop(v, F(20))
    \/ \E v \in Nodes : SetWidth(v, F(80))
    \/ \E v \in Nodes, x \in Positions : SetPosition(v, x)

SpecNesting == Init /\ [][NextNesting]_vars

----------------------------------------------------------------------------
(* SpecSetters: every style setter, on attached and on detached views *)

InitSetters ==
    /\ \E shape \in {<<<<1, 2>>>>, <<<<1, 2>>, <<2, 3>>>>} : views = Attach(Built, shape)
    /\ crashed = "no"
    /\ op = NoCall
    /\ threads = NoThreads

NextSetters ==
    \/ DoUpdate(1)
    \/ \E v \in Nodes : SetLeft(v, F(10))
    \/ \E v \in Nodes : SetRight(v, F(10))
    \/ \E v \in Nodes : SetTop(v, F(10))
    \/ \E v \in Nodes : SetBottom(v, F(10))
    \/ \E v \in Nodes : SetWidth(v, F(80))
    \/ \E v \in Nodes : SetHeight(v, F(80))
    \/ \E v \in Nodes : SetMarginLeft(v, F(3))
    \/ \E v \in Nodes : SetMarginTop(v, F(3))
    \/ \E v \in Nodes : SetMarginRight(v, F(3))
    \/ \E v \in Nodes : SetMarginBottom(v, F(3))
    \/ \E v \in Nodes : SetPosition(v, PositionAbsolute)
    \/ \E v \in Nodes : SetDirection(v, Column)
    \/ \E v \in Nodes : SetWrap(v, Wrap)
    \/ \E v \in Nodes : SetJustify(v, JustifySpaceBetween)
    \/ \E v \in Nodes : SetAlignItems(v, AlignItemEnd)
    \/ \E v \in Nodes : SetAlignContent(v, AlignContentCenter)
    \/ \E v \in Nodes : SetGrow(v, One)
    \/ \E v \in Nodes : SetShrink(v, One)
    \/ \E v \in Nodes : SetDisplay(v, DisplayNone)
    \/ \E v \in Nodes : SetHidden(v, TRUE)

SpecSetters == InitSetters /\ [][NextSetters]_vars

----------------------------------------------------------------------------
(* the claims *)

\* a tick on a root has returned
RootTicked(names) ==
    /\ op.name \in names
    /\ crashed = "no"
    /\ ~views[op.v].hasParent

\* the positions <<p, i>> at which c is listed as a child
Occurrences(vs, c) ==
    UNION {{<<p, i>> : i \in {j \in 1..Len(vs[p].children) : vs[p].children[j].item = c}} :
             p \in DOMAIN vs}

\* below r the children lists form a tree: no view is listed twice, r is listed nowhere
TreeShaped(vs, r) ==
    /\ Occurrences(vs, r) = {}
    /\ \A c \in Subtree(vs, r) : Cardinality(Occurrences(vs, c)) <= 1

\* C1: after a tick (Update) on the root, the frame of every non-root node
\* that takes part in layout is its container-relative rectangle translated
\* by its parent's current frame.Min: the bounds its parent computed for a
\* flow child, the offsets rule for an absolute child.
C1_FramesAbsolute ==
    (RootTicked({"Update", "Tick"}) /\ TreeShaped(views, op.v)) =>
        \A p \in Subtree(views, op.v) : \A i \in 1..Len(views[p].children) :
            LET c == views[p].children[i].item
            IN views[c].Display = DisplayFlex =>
                  views[c].frame =
                     IF views[c].Position = PositionAbsolute
                     THEN absoluteBounds(views[p].frame, views[c])
                     ELSE RAdd(views[p].children[i].bounds, RMin(views[p].frame))

\* C2: a tick on the root that follows a tick on the same root leaves every
\* frame of the tree as it was and runs no layout pass, no node of the tree
\* being dirty after the first.
C2_SecondTickIdle ==
    [][(/\ op.name = "Tick" /\ op'.name = "Tick" /\ op'.v = op.v
        /\ ~views[op.v].hasParent /\ crashed' = "no")
       => /\ \A n \in Subtree(views, op.v) :
                ~views[n].isDirty /\ views'[n].frame = views[n].frame
          /\ op'.ret = <<>>]_vars

C2_Witness ==
    /\ RootTicked({"Tick"})
    /\ op.again
    /\ \E n \in Descendants(views, op.v) : views[n].frame # ZR

\* C3: Update on v enters v's layout pass (first) iff v is dirty, every dirty
\* node below v is laid out in the same call whatever the state of its
\* ancestors, and when Update on a root returns no node of its tree is dirty.
C3_UpdateClears ==
    [][(op'.name = "Update" /\ crashed' = "no")
       => LET v == op'.v
              passes == op'.ret
          IN /\ views[v].isDirty <=> (passes # <<>> /\ passes[1] = v)
             /\ ~views[v].isDirty => \A k \in 1..Len(passes) : passes[k] # v
             /\ ~views'[v].isDirty
             /\ \A d \in Subtree(views, v) :
                   views[d].isDirty => \E k \in 1..Len(passes) : passes[k] = d
             /\ ~views[v].hasParent =>
                   \A d \in Subtree(views', v) : ~views'[d].isDirty]_vars

\* a dirty view under clean ancestors was laid out, and only it
C3_Witness ==
    /\ RootTicked({"Update"})
    /\ Len(op.ret) = 1
    /\ op.ret[1] # op.v
    /\ op.ret[1] \in Descendants(views, op.v)
    /\ views[op.ret[1]].parent # op.v

\* the field a setter stores into, as the stored value reads afterwards
Stored(V, name) ==
    CASE name = "SetLeft" -> V.Left
      [] name = "SetRight" -> V.Right[1]
      [] name = "SetTop" -> V.Top
      [] name = "SetBottom" -> V.Bottom[1]
      [] name = "SetWidth" -> V.Width
      [] name = "SetHeight" -> V.Height
      [] name = "SetMarginLeft" -> V.MarginLeft
      [] name = "SetMarginTop" -> V.MarginTop
      [] name = "SetMarginRight" -> V.MarginRight
      [] name = "SetMarginBottom" -> V.MarginBottom
      [] name = "SetPosition" -> V.Position
      [] name = "SetDirection" -> V.Direction
      [] name = "SetWrap" -> V.Wrap
      [] name = "SetJustify" -> V.Justify
      [] name = "SetAlignItems" -> V.AlignItems
      [] name = "SetAlignContent" -> V.AlignContent
      [] name = "SetGrow" -> V.Grow
      [] name = "SetShrink" -> V.Shrink
      [] name = "SetDisplay" -> V.Display
      [] name = "SetHidden" -> V.Hidden

SetterNames ==
    {"SetLeft", "SetRight", "SetTop", "SetBottom", "SetWidth", "SetHeight",
     "SetMarginLeft", "SetMarginTop", "SetMarginRight", "SetMarginBottom",
     "SetPosition", "SetDirection", "SetWrap", "SetJustify", "SetAlignItems",
     "SetAlignContent", "SetGrow", "SetShrink", "SetDisplay", "SetHidden"}

\* C4: a style setter stores its argument, leaves its view dirty, leaves the
\* parent dirty if the view has one, and changes the dirty flag of no other view.
C4_SetterDirties ==
    [][op'.name \in SetterNames
       => LET v == op'.v
          IN /\ Stored(views'[v], op'.name) = op'.arg
             /\ views'[v].isDirty
             /\ \A n \in DOMAIN views \ {v} :
                   views'[n].isDirty =
                      (views[n].isDirty \/ (views[v].hasParent /\ views[v].parent = n))]_vars

\* the tree was clean after an Update on the root; the setter then called on
\* a grandchild has marked the grandchild and its parent, not the root
C4_Witness ==
    /\ op.name \in SetterNames
    /\ op.seq = 2
    /\ views[op.v].isDirty
    /\ views[op.v].hasParent
    /\ views[views[op.v].parent].isDirty
    /\ views[views[op.v].parent].hasParent
    /\ ~views[views[views[op.v].parent].parent].isDirty

\* C5: every view is listed as a child at most once over all children lists,
\* and its back-reference (hasParent, parent) names exactly the view that
\* lists it.
C5_SingleParent ==
    \A c \in DOMAIN views :
        /\ Cardinality(Occurrences(views, c)) <= 1
        /\ views[c].hasParent <=> Occurrences(views, c) # {}
        /\ \A o \in Occurrences(views, c) : views[c].parent = o[1]
        /\ ~views[c].hasParent => views[c].parent = NoView

\* C6: RemoveChild(c) on v that lists c removes the first entry for c and
\* keeps the others in order, clears c's back-reference, marks v dirty and
\* returns true; on v that does not list c it returns false and changes no
\* children list, no dirty flag and no back-reference.
C6_RemoveChild ==
    [][op'.name = "RemoveChild"
       => LET v == op'.v
              c == op'.arg
              old == views[v].children
              hit == {i \in 1..Len(old) : old[i].item = c}
          IN IF hit # {}
             THEN LET first == CHOOSE i \in hit : \A j \in hit : i <= j
                  IN /\ op'.ret = TRUE
                     /\ views'[v].children =
                           [j \in 1..(Len(old) - 1) |->
                               IF j < first THEN old[j] ELSE old[j + 1]]
                     /\ views'[v].isDirty
                     /\ ~views'[c].hasParent
                     /\ views'[c].parent = NoView
             ELSE /\ op'.ret = FALSE
                  /\ \A n \in DOMAIN views :
                        /\ views'[n].children = views[n].children
                        /\ views'[n].isDirty = views[n].isDirty
                        /\ views'[n].hasParent = views[n].hasParent
                        /\ views'[n].parent = views[n].parent]_vars

\* a child has been removed from a list that still holds another
C6_Witness ==
    /\ op.name = "RemoveChild"
    /\ op.ret = TRUE
    /\ Len(views[op.v].children) > 0
    /\ ~views[op.arg].hasParent

----------------------------------------------------------------------------
(* SpecFlow: one container and its flow children, in the arrangements of   *)
(* the package's tests (centring, wrapping, percentage sizes, growing);    *)
(* the container is ticked, resized, and children are removed              *)

\* the largest number of children of the container
MaxItems == 3
FlowNodes == 1..(MaxItems + 1)

\* &View{Width: w, Height: h}
Box(w, h) == [ZeroView EXCEPT !.Width = F(w), !.Height = F(h)]

\* a scene: the container and the kinds of child it may hold
Scenes ==
    { [box |-> [Box(100, 100) EXCEPT !.Justify = JustifyCenter,
                                     !.AlignItems = AlignItemCenter],
       kinds |-> {Box(50, 50),
                  [Box(30, 20) EXCEPT !.MarginLeft = F(5)],
                  [Box(0, 20) EXCEPT !.WidthInPct = F(50), !.Direction = Column]}],
      [box |-> [Box(200, 200) EXCEPT !.Wrap = Wrap, !.AlignItems = AlignItemStart],
       kinds |-> {Box(100, 100),
                  Box(0, 50),
                  Box(300, 50),
                  [Box(60, 40) EXCEPT !.MarginLeft = F(10), !.MarginRight = F(10)]}],
      [box |-> [Box(500, 500) EXCEPT !.Justify = JustifyEnd, !.AlignItems = AlignItemEnd],
       kinds |-> {[Box(0, 100) EXCEPT !.WidthInPct = F(100)],
                  Box(50, 100),
                  [Box(0, 100) EXCEPT !.WidthInPct = F(50), !.MarginLeft = F(10)],
                  [Box(0, 100) EXCEPT !.MarginRight = F(20)]}],
      [box |-> [Box(500, 500) EXCEPT !.Direction = Column, !.AlignItems = AlignItemStart],
       kinds |-> {[Box(100, 0) EXCEPT !.HeightInPct = F(100)],
                  Box(100, 50),
                  [Box(100, 0) EXCEPT !.HeightInPct = F(100), !.MarginTop = F(10)]}],
      [box |-> [Box(1000, 1000) EXCEPT !.Justify = JustifyCenter],
       kinds |-> {[ZeroView EXCEPT !.Grow = One],
                  [Box(100, 0) EXCEPT !.Grow = F(2), !.MarginLeft = F(20)],
                  Box(300, 0),
                  [ZeroView EXCEPT !.WidthInPct = F(50), !.Direction = Column]}] }

\* flex.AddChild(items...) on a new container
InitFlow ==
    /\ \E scene \in Scenes, k \in 0..MaxItems :
          \E items \in [1..k -> scene.kinds] :
             views = Attach([n \in FlowNodes |->
                                IF n = 1 THEN scene.box
                                ELSE IF n - 1 <= k THEN items[n - 1] ELSE ZeroView],
                            [i \in 1..k |-> <<1, i + 1>>])
    /\ crashed = "no"
    /\ op = NoCall
    /\ threads = NoThreads

NextFlow ==
    \/ DoUpdate(1)
    \/ \E c \in FlowNodes \ {1} : DoRemoveChild(1, c)
    \/ SetWidth(1, F(200))
    \/ SetHeight(1, F(200))

SpecFlow == InitFlow /\ [][NextFlow]_vars

----------------------------------------------------------------------------
(* the claims about the layout pass of the container (view 1 of SpecFlow) *)

\* the heap when Update on a dirty root v reaches v's own layout pass: the
\* frame is seeded and the static children have been laid out
passInput(vs, v) == startLayoutChildren(lockAndSeed(Heap(vs), v), v, 1).v

\* that heap after the percentage resolution of v's pass
passResolved(vi, v) ==
    resolvePercent(placeAbsolute(vi, v), v, Dx(vi[v].frame), Dy(vi[v].frame))

\* the measurements (elements, lines, sizes, offsets) of v's pass
passMeasured(vi, v) ==
    measure(vi, passResolved(vi, v), v, Dx(vi[v].frame), Dy(vi[v].frame))

\* Update on the dirty container 1 is the step taken, and it returned
ContainerPass ==
    /\ op'.name = "Update" /\ op'.v = 1 /\ crashed' = "no"
    /\ views[1].isDirty

\* the main-axis extent of a rectangle
mainExtent(dir, r) == mainSize(dir, Dx(r), Dy(r))

\* the container 1 built from scratch with its present children only: the
\* same attributes, every view new (nothing laid out, no parent, no child),
\* then AddChild for each present child in order
Rebuilt(vs) ==
    Attach([n \in DOMAIN vs |->
               [vs[n] EXCEPT !.children = <<>>,
                             !.isDirty = FALSE,
                             !.hasParent = FALSE,
                             !.parent = NoView,
                             !.frame = ZR,
                             !.calculatedWidth = Zero,
                             !.calculatedHeight = Zero]],
           [i \in 1..Len(vs[1].children) |-> <<1, vs[1].children[i].item>>])

RECURSIVE Flatten(_)
Flatten(lines) ==
    IF lines = <<>> THEN <<>>
    ELSE Flatten(SubSeq(lines, 1, Len(lines) - 1)) \o lines[Len(lines)].child

\* the lines of a pass are the greedy packing of its elements: consecutive
\* runs holding every element once, in order; without wrap one line; with
\* wrap an element starts a new line exactly when the elements already on the
\* line plus its own basis and main margins exceed the container main size,
\* and no line is empty
GreedyLines(e) ==
    LET m == Len(e.el)
        hyp(k) == FAdd(e.flexBaseSize[k], e.mm[k])
        filled(l, j) == FSum([i \in 1..j |-> hyp(e.lines[l].child[i])])
    IN /\ Flatten(e.lines) = [k \in 1..m |-> k]
       /\ IF e.wrap = NoWrap
          THEN Len(e.lines) = 1
          ELSE /\ m > 0 => \A l \in 1..Len(e.lines) : Len(e.lines[l].child) > 0
               /\ \A l \in 1..Len(e.lines) : \A j \in 2..Len(e.lines[l].child) :
                     ~FGt(filled(l, j), e.containerMainSize)
               /\ \A l \in 2..Len(e.lines) :
                     FGt(FAdd(filled(l - 1, Len(e.lines[l - 1].child)), hyp(e.lines[l].child[1])),
                         e.containerMainSize)

\* C8: the lines of every pass of the container are the greedy packing of
\* its flow children.
C8_GreedyLines ==
    [][ContainerPass => GreedyLines(passMeasured(passInput(views, 1), 1))]_vars

\* the flow entries of container 1, as indices into its children list
flowEntries(vs) == {i \in 1..Len(vs[1].children) :
                       /\ vs[vs[1].children[i].item].Display # DisplayNone
                       /\ vs[vs[1].children[i].item].Position # PositionAbsolute}

\* per direction: the percentage, the explicit size and the outer explicit
\* size (explicit size + main margins) of a view on the main axis
mainPct(dir, V) == IF dir = Row THEN V.WidthInPct ELSE V.HeightInPct
mainExplicit(dir, V) == IF dir = Row THEN V.Width ELSE V.Height
mainOuter(dir, V) ==
    FAdd(mainExplicit(dir, V), FAdd(mainMargin(dir, V)[1], mainMargin(dir, V)[2]))
mainCalculated(dir, V) == IF dir = Row THEN V.calculatedWidth ELSE V.calculatedHeight
\* the sum of f[j] over the indices j of S, in index order
SumOver(S, f) == FSum([j \in 1..Len(f) |-> IF j \in S THEN f[j] ELSE Zero])

\* the percentage rule with the remaining space R[i] of each flow entry i: in
\* the pass of container 1 on heap vi (committed in heap vo), an entry with a
\* main-axis percentage p > 0 and R > 0 resolves to min(W*p/100, R), and that
\* is its committed main size when it has no explicit size and does not flex
PercentRule(vi, vo, R) ==
    LET dir == vi[1].Direction
        W == mainExtent(dir, vi[1].frame)
        rp == passResolved(vi, 1)
    IN \A i \in flowEntries(vi) :
          LET c == vi[1].children[i].item
              p == mainPct(dir, vi[c])
              want == FMin(FDiv(FMul(W, p), F(100)), R[i])
          IN (FGt(p, Zero) /\ FGt(R[i], Zero)) =>
                /\ mainCalculated(dir, rp[c]) = want
                /\ (/\ mainExplicit(dir, vi[c]) = Zero
                    /\ vi[c].Grow = Zero /\ vi[c].Shrink = Zero)
                   => mainExtent(dir, vo[1].children[i].bounds) = want

\* W minus the outer explicit sizes of all flow children, entry i included
RemainingAll(vi, i) ==
    LET dir == vi[1].Direction
        outer == [j \in 1..Len(vi[1].children) |-> mainOuter(dir, vi[vi[1].children[j].item])]
    IN FSub(mainExtent(dir, vi[1].frame), SumOver(flowEntries(vi), outer))

\* W minus the outer explicit sizes of the fixed-size siblings of entry i
RemainingSiblings(vi, i) ==
    LET dir == vi[1].Direction
        V(j) == vi[vi[1].children[j].item]
        fixed(j) == IF dir = Row THEN isWidthFixed(V(j)) ELSE isHeightFixed(V(j))
        outer == [j \in 1..Len(vi[1].children) |-> mainOuter(dir, V(j))]
    IN FSub(mainExtent(dir, vi[1].frame),
            SumOver({j \in flowEntries(vi) \ {i} : fixed(j)}, outer))

GrowRule(e, vo) ==
    \A l \in 1..Len(e.lines) :
        LET ks == e.lines[l].child
            n == Len(ks)
            W == e.containerMainSize
            used == FSum([j \in 1..n |-> FAdd(e.size[ks[j]], e.mm[ks[j]])])
            grows == FSum([j \in 1..n |-> e.Grow[ks[j]]])
            got(k) == mainExtent(e.dir, vo[1].children[e.el[k]].bounds)
        IN (FLt(used, W) /\ ~FLt(grows, One)) =>
              /\ \A j \in 1..n :
                    got(ks[j]) = IF FGt(e.Grow[ks[j]], Zero)
                                 THEN FAdd(e.size[ks[j]],
                                           FMul(FDiv(e.Grow[ks[j]], grows), FSub(W, used)))
                                 ELSE e.size[ks[j]]
              /\ FSum([j \in 1..n |-> FAdd(got(ks[j]), e.mm[ks[j]])]) = W

\* C10: in every line of a pass of the container whose bases and main
\* margins sum to less than the container main size and whose grow factors
\* sum to at least 1, a child with Grow > 0 gets basis + Grow / (sum of Grow)
\* x free space, a child with Grow = 0 keeps its basis, and the main sizes
\* and main margins of the line sum to the container main size.
C10_GrowDistribution ==
    [][ContainerPass => GrowRule(passMeasured(passInput(views, 1), 1), views')]_vars

----------------------------------------------------------------------------
(* SpecAbsolute: a 100x100 root, a 40x30 container and a 10x10 item, the   *)
(* last two static or absolute, the item with any combination of offsets;  *)
(* the root is ticked and moved, views are taken out of and put into flow  *)

BuiltAbsolute ==
    [n \in Nodes |->
        IF n = 1 THEN Box(100, 100)
        ELSE IF n = 2 THEN [Box(40, 30) EXCEPT !.Left = F(5), !.Top = F(7)]
        ELSE Box(10, 10)]

InitAbsolute ==
    /\ \E shape \in {<<<<1, 2>>, <<1, 3>>>>, <<<<1, 2>>, <<2, 3>>>>},
          pos2 \in Positions, pos3 \in Positions,
          left \in {Zero, F(5)}, top \in {Zero, F(7)},
          right \in {NilFloat, Float(F(40))}, bottom \in {NilFloat, Float(F(50))} :
          views = Attach([BuiltAbsolute EXCEPT ![2].Position = pos2,
                                               ![3].Position = pos3,
                                               ![3].Left = left, ![3].Top = top,
                                               ![3].Right = right, ![3].Bottom = bottom],
                         shape)
    /\ crashed = "no"
    /\ op = NoCall
    /\ threads = NoThreads

NextAbsolute ==
    \/ DoUpdate(1)
    \/ SetLeft(1, F(10))
    \/ \E v \in Nodes \ {1}, x \in Positions : SetPosition(v, x)
    \/ \E v \in Nodes \ {1} : SetDisplay(v, DisplayNone)

SpecAbsolute == InitAbsolute /\ [][NextAbsolute]_vars

\* the absolute children of container v that are displayed
absoluteChildren(vs, v) ==
    {c \in ItemSet(vs[v]) : vs[c].Display # DisplayNone /\ vs[c].Position = PositionAbsolute}

\* the frame the offsets rule gives a w x h view with offsets left, right,
\* top, bottom inside the container frame <<L, T, R, B>>; a left or top
\* offset is set when it is not 0, a right or bottom offset when it is not nil
offsetsFrame(cf, C) ==
    LET x == IF C.Left # Zero THEN FAdd(cf[1], C.Left)
             ELSE IF C.Right # NilFloat THEN FSub(FSub(cf[3], C.Right[1]), C.Width)
             ELSE cf[1]
        y == IF C.Top # Zero THEN FAdd(cf[2], C.Top)
             ELSE IF C.Bottom # NilFloat THEN FSub(FSub(cf[4], C.Bottom[1]), C.Height)
             ELSE cf[2]
    IN <<x, y, FAdd(x, C.Width), FAdd(y, C.Height)>>

\* C11: when Update has run the layout pass of the root, every displayed
\* absolute child of the root is framed by the offsets rule inside the
\* root's frame: x = L + left if left is set, else R - right - w if right is
\* set, else L; y likewise from top and bottom.
C11_AbsoluteOffsets ==
    [][(/\ op'.name = "Update" /\ op'.v = 1 /\ crashed' = "no" /\ views[1].isDirty)
       => \A c \in absoluteChildren(views', 1) :
             views'[c].frame = offsetsFrame(views'[1].frame, views'[c])]_vars

\* the 10x10 absolute child with right = 40 and bottom = 50 in the 100x100
\* root at the origin has been framed [50,40,60,50]
C11_Witness ==
    /\ op.name = "Update" /\ op.v = 1 /\ crashed = "no"
    /\ views[1].frame = IR(0, 0, 100, 100)
    /\ 3 \in absoluteChildren(views, 1)
    /\ views[3].Left = Zero /\ views[3].Top = Zero
    /\ views[3].Right = Float(F(40)) /\ views[3].Bottom = Float(F(50))
    /\ views[3].frame = IR(50, 40, 60, 50)

\* the places of view n in the sequence of layout passes of a tick
passesOf(passes, n) == {j \in 1..Len(passes) : passes[j] = n}

\* C13: in a tick on the root, every displayed absolute child c with
\* children of a container v whose layout pass ran has its own layout pass
\* after the pass of v, and after the tick the children of c are positioned
\* inside the frame of c: by the offsets rule if absolute, at their bounds
\* translated by the origin of c if in flow.
C13_AbsoluteChildRelaid ==
    [][(op'.name = "Update" /\ op'.v = 1 /\ crashed' = "no")
       => \A v \in Nodes : \A c \in absoluteChildren(views', v) :
             (passesOf(op'.ret, v) # {} /\ views'[c].children # <<>>)
             => /\ \E j \in passesOf(op'.ret, c) :
                      \A i \in passesOf(op'.ret, v) : i < j
                /\ \A k \in 1..Len(views'[c].children) :
                      LET d == views'[c].children[k].item
                      IN views'[d].Display # DisplayNone =>
                            views'[d].frame =
                               IF views'[d].Position = PositionAbsolute
                               THEN offsetsFrame(views'[c].frame, views'[d])
                               ELSE RAdd(views'[c].children[k].bounds,
                                         RMin(views'[c].frame))]_vars

\* the entries of container v whose view is absolute or not displayed
excludedEntries(vs, v) ==
    {i \in 1..Len(vs[v].children) :
        \/ vs[vs[v].children[i].item].Display = DisplayNone
        \/ vs[vs[v].children[i].item].Position = PositionAbsolute}

\* the heap in which entry i is not in the children list of v at all
withoutEntry(vs, v, i) == [vs EXCEPT ![v].children = RemoveAt(@, i)]

\* C12: for every container v and every entry of v that is absolute or not
\* displayed, a tick on the root frames the children of v that are in flow,
\* and sizes v (calculatedWidth, calculatedHeight), as the same tick does
\* when that entry is not in the children list of v.
C12_ExcludedFromFlow ==
    [][(op'.name = "Update" /\ op'.v = 1 /\ crashed' = "no")
       => \A v \in Nodes : \A i \in excludedEntries(views, v) :
             \A alone \in {Update(Heap(withoutEntry(views, v, i)), 1).v} :
                /\ views'[v].calculatedWidth = alone[v].calculatedWidth
                /\ views'[v].calculatedHeight = alone[v].calculatedHeight
                /\ \A k \in 1..Len(views[v].children) :
                      k \notin excludedEntries(views, v) =>
                         views'[views[v].children[k].item].frame
                            = alone[views[v].children[k].item].frame]_vars

\* the root has been ticked with the absolute 40x30 view before the 10x10
\* item in its list: the item is framed at the root's origin
C12_Witness ==
    /\ op.name = "Update" /\ op.v = 1 /\ crashed = "no" /\ op.ret # <<>>
    /\ Items(views[1]) = <<2, 3>>
    /\ 2 \in absoluteChildren(views, 1)
    /\ views[3].Position = PositionStatic /\ views[3].Display = DisplayFlex
    /\ views[2].frame = IR(5, 7, 45, 37)
    /\ views[3].frame = IR(0, 0, 10, 10)

----------------------------------------------------------------------------
(* SpecIntrinsic: a 1000x1000 root holding one container with no size on   *)
(* one or both axes, which holds up to MaxBars items (the arrangements of  *)
(* TestAutoHeightCalculation, TestShrink and TestAutoExpanding); the root  *)
(* is ticked and resized                                                   *)

\* the largest number of items in the container
MaxBars == 5
IntrinsicNodes == 1..(MaxBars + 2)

\* a scene: the root, the container, the kinds of item
IntrinsicScenes ==
    { [root |-> [Box(1000, 1000) EXCEPT !.Direction = Column,
                                        !.AlignItems = AlignItemStart],
       box |-> [Box(100, 0) EXCEPT !.Direction = Column]],
      [root |-> [Box(1000, 1000) EXCEPT !.AlignItems = AlignItemCenter],
       box |-> [Box(128, 0) EXCEPT !.Shrink = One, !.Wrap = Wrap,
                                   !.Direction = Column, !.Justify = JustifyCenter]],
      [root |-> Box(1000, 1000),
       box |-> [Box(100, 0) EXCEPT !.Direction = Column]],
      [root |-> [Box(1000, 1000) EXCEPT !.AlignItems = AlignItemStart],
       box |-> [ZeroView EXCEPT !.Grow = One, !.Wrap = Wrap]] }

BarKinds == {Box(128, 64), Box(100, 100), [Box(50, 50) EXCEPT !.Grow = One]}

InitIntrinsic ==
    /\ \E scene \in IntrinsicScenes, k \in 0..MaxBars, bar \in BarKinds :
          views = Attach([n \in IntrinsicNodes |->
                             IF n = 1 THEN scene.root
                             ELSE IF n = 2 THEN scene.box
                             ELSE IF n - 2 <= k THEN bar ELSE ZeroView],
                         <<<<1, 2>>>> \o [i \in 1..k |-> <<2, i + 2>>])
    /\ crashed = "no"
    /\ op = NoCall
    /\ threads = NoThreads

NextIntrinsic ==
    \/ DoUpdate(1)
    \/ SetWidth(1, F(200))
    \/ SetHeight(1, F(200))

SpecIntrinsic == InitIntrinsic /\ [][NextIntrinsic]_vars

\* the largest and the smallest of a non-empty set of numbers
MaxF(S) == CHOOSE x \in S : \A y \in S : ~FLt(x, y)
MinF(S) == CHOOSE x \in S : \A y \in S : ~FLt(y, x)

\* the intrinsic main size as the sum over the lines of the largest
\* re-expanded item size: basis + grow factor x the largest max-content flex
\* fraction of the line (a fraction is (main size - basis) / max(1, factor),
\* and the largest is at least 0)
expandedMainSize(e) ==
    LET fraction(k) ==
            IF FGt(e.mainSize[k], e.flexBaseSize[k])
            THEN FDiv(FSub(e.mainSize[k], e.flexBaseSize[k]), FMax(One, e.Grow[k]))
            ELSE Zero
        inLine(l) == {e.lines[l].child[j] : j \in 1..Len(e.lines[l].child)}
        largest(l) == MaxF({Zero} \cup {fraction(k) : k \in inLine(l)})
    IN FSum([l \in 1..Len(e.lines) |->
               MaxF({Zero} \cup {FAdd(e.flexBaseSize[k], FMul(e.Grow[k], largest(l))) :
                                    k \in inLine(l)})])

\* the intrinsic cross size as the largest line end (cross offset + cross
\* size), or the largest span of the children of a line if that is more
spannedCrossSize(e) ==
    LET inLine(l) == {e.lines[l].child[j] : j \in 1..Len(e.lines[l].child)}
        span(l) == FSub(MaxF({FAdd(e.crossOffset[k], e.crossSize[k]) : k \in inLine(l)}),
                        MinF({e.crossOffset[k] : k \in inLine(l)}))
    IN MaxF({Zero}
            \cup {FAdd(e.lineOff[l], e.lineCross[l]) : l \in 1..Len(e.lines)}
            \cup {span(l) : l \in {x \in 1..Len(e.lines) : inLine(x) # {}}})

\* the size of view V on an axis ("w" or "h") is unset
unsetOn(axis, V) ==
    IF axis = "w" THEN V.Width = Zero /\ V.WidthInPct = Zero
    ELSE V.Height = Zero /\ V.HeightInPct = Zero

\* the intrinsic size rule for the flow children of root 1, in the step from
\* heap vs to heap vo: a child c with an unset size on an axis has, when the
\* pass of the root starts, the calculated size its own pass worked out
\* (expandedMainSize on its main axis, spannedCrossSize on its cross axis),
\* and on the axes for which asIs holds the root gives it bounds of that size
IntrinsicRule(vs, vo, asIs) ==
    \A vi \in {passInput(vs, 1)} : \A i \in flowEntries(vi) :
       LET c == vi[1].children[i].item
       IN \A e \in {passMeasured(passInput(vs, c), c)} :
             LET onMain(axis) == (e.dir = Row) = (axis = "w")
                 calc(axis) == IF axis = "w" THEN vi[c].calculatedWidth
                               ELSE vi[c].calculatedHeight
                 got(axis) == IF axis = "w" THEN Dx(vo[1].children[i].bounds)
                              ELSE Dy(vo[1].children[i].bounds)
             IN \A axis \in {"w", "h"} :
                   unsetOn(axis, vi[c]) =>
                      /\ calc(axis) = IF onMain(axis) THEN expandedMainSize(e)
                                      ELSE spannedCrossSize(e)
                      /\ asIs[c][axis] => got(axis) = calc(axis)

----------------------------------------------------------------------------
(* SpecMisuse: styles are set to values inside and just outside their *)
(* enumerations, then the root is ticked                               *)

Directions == {Row, Column, Column + 1}
Justifies == {JustifyEnd, JustifySpaceAround + 1}
ItemAlignments == {AlignItemEnd, AlignItemCenter + 1}
ContentAlignments == {AlignContentEnd, AlignContentStretch + 1}

NextMisuse ==
    \/ DoUpdate(1)
    \/ SetLeft(1, F(10))
    \/ \E v \in Nodes, x \in Directions : SetDirection(v, x)
    \/ \E v \in Nodes, x \in Justifies : SetJustify(v, x)
    \/ \E v \in Nodes, x \in ItemAlignments : SetAlignItems(v, x)
    \/ \E v \in Nodes, x \in ContentAlignments : SetAlignContent(v, x)

SpecMisuse == Init /\ [][NextMisuse]_vars

\* a style value of V is outside its enumeration
Unrecognized(V) ==
    \/ BadDirection(V.Direction)
    \/ V.Justify \notin JustifyStart..JustifySpaceAround
    \/ V.AlignItems \notin AlignItemStretch..AlignItemCenter
    \/ V.AlignContent \notin AlignContentStart..AlignContentStretch

\* C15: a tick in which a layout pass runs on a container whose direction,
\* justify, align-items or align-content is outside its enumeration panics.
C15_UnrecognizedAborts ==
    [][(op'.name = "Update" /\ \E j \in 1..Len(op'.ret) : Unrecognized(views[op'.ret[j]]))
          => crashed' = "panic"]_vars

\* C17: a tick on the root that panics leaves the frame, the computed size and
\* the dirty flag of every view of the root's subtree as they were.
C17_NoPartialCommit ==
    [][(op'.name = "Update" /\ crashed' = "panic")
          => \A n \in Subtree(views, op'.v) :
                /\ views'[n].frame = views[n].frame
                /\ views'[n].calculatedWidth = views[n].calculatedWidth
                /\ views'[n].calculatedHeight = views[n].calculatedHeight
                /\ views'[n].isDirty = views[n].isDirty]_vars

----------------------------------------------------------------------------
(* SpecDegenerate: a 100x100 row of up to two items that leave no space, *)
(* no shrinkable size or no sibling to space against                      *)

\* an item wider than the row, an item without a width, a plain item
ItemKinds ==
    {Box(200, 10), [ZeroView EXCEPT !.Height = F(10)], Box(30, 10)}

InitDegenerate ==
    /\ \E justify \in JustifyStart..JustifySpaceAround, k \in 0..(NumViews - 1) :
       \E kind \in [2..NumViews -> ItemKinds] :
          views = Attach([n \in Nodes |->
                             IF n = 1 THEN [Box(100, 100) EXCEPT !.Justify = justify]
                             ELSE kind[n]],
                         [i \in 1..k |-> <<1, i + 1>>])
    /\ crashed = "no"
    /\ op = NoCall
    /\ threads = NoThreads

NextDegenerate ==
    \/ DoUpdate(1)
    \/ \E v \in Nodes \ {1}, x \in {One, <<1, 2>>} : SetShrink(v, x)
    \/ \E x \in JustifyStart..JustifySpaceAround : SetJustify(1, x)
    \/ \E v \in Nodes \ {1} : DoRemoveChild(1, v)

SpecDegenerate == InitDegenerate /\ [][NextDegenerate]_vars

\* C16: no frame and no child bounds ever holds a coordinate that is
\* not-a-number or infinite.
C16_FiniteFrames ==
    \A n \in DOMAIN views :
        /\ \A j \in 1..4 : IsFinite(views[n].frame[j])
        /\ \A i \in 1..Len(views[n].children) :
              \A j \in 1..4 : IsFinite(views[n].children[i].bounds[j])

----------------------------------------------------------------------------
(* attaching *)

\* v and the views above it, following the parent pointers at most k times
RECURSIVE AncestorChain(_, _, _)
AncestorChain(vs, v, k) ==
    IF k = 0 \/ ~vs[v].hasParent THEN {v}
    ELSE {v} \cup AncestorChain(vs, vs[v].parent, k - 1)

\* the parent and the child of the attach call recorded in o
attachParent(o) == IF o.name = "AddChild" THEN o.v ELSE o.arg
attachChild(o) == IF o.name = "AddChild" THEN o.arg ELSE o.v

\* C18: after AddChild or AddTo has attached a parentless view that is not
\* above the parent, the parent and every ancestor of the parent are dirty.
C18_AttachDirtiesAncestors ==
    [][(/\ op'.name \in {"AddChild", "AddTo"} /\ op'.seq # op.seq
        /\ ~views[attachChild(op')].hasParent
        /\ attachChild(op') \notin AncestorChain(views, attachParent(op'), NumViews))
          => \A a \in AncestorChain(views', attachParent(op'), NumViews) :
                views'[a].isDirty]_vars

\* C20: a tick on whatever the attach operations have built returns or
\* panics; it never blocks and never runs for ever.
C20_TickTerminates ==
    op.name \in {"Update", "Draw"} => crashed \in {"no", "panic"}

----------------------------------------------------------------------------
(* SpecConcurrent: goroutines call Update and Draw on the same views; a    *)
(* goroutine runs one statement of its innermost call at a time            *)

\* a call on the stack: the method, its receiver, where it stands and the
\* index of the child its loop visits next
Frame(fn, v, pc) == [fn |-> fn, v |-> v, pc |-> pc, i |-> 1]

Innermost(st) == st[Len(st)]
Advance(st, f) == [st EXCEPT ![Len(st)] = f]
Return(st) == SubSeq(st, 1, Len(st) - 1)

\* goroutine t is inside method fn at pc
At(t, fn, pc) ==
    /\ crashed = "no"
    /\ threads.stack[t] # <<>>
    /\ Innermost(threads.stack[t]).fn \in fn
    /\ Innermost(threads.stack[t]).pc = pc

\* a faulty variant of the mutex: Lock never waits
mutexIgnored(lock, v) == TRUE

\* sync.Mutex: Lock returns only while nobody holds the mutex
mutexFree(lock, v) == lock[v] = 0

\* "go v.Update()" / "go v.Draw(screen)"
Go(t, name, v) ==
    /\ Running
    /\ threads.stack[t] = <<>>
    /\ threads' = [threads EXCEPT !.stack[t] = <<Frame(name, v, "test")>>]
    /\ op' = Call(name, v, t, NoView)
    /\ UNCHANGED <<views, crashed>>

\* "if v.isDirty { v.startLayout() }" of Update and Draw
TestDirty(t) ==
    /\ At(t, {"Update", "Draw"}, "test")
    /\ LET st == threads.stack[t]
           f == Innermost(st)
           on == Advance(st, [f EXCEPT !.pc = "children"])
       IN threads' = [threads EXCEPT !.stack[t] =
                         IF views[f.v].isDirty
                         THEN Append(on, Frame("startLayout", f.v, "lock"))
                         ELSE on]
    /\ UNCHANGED <<views, crashed, op>>

\* "v.lock.Lock(); defer v.lock.Unlock()" and the seeding of a root's frame
LockStep(t) ==
    /\ At(t, {"startLayout"}, "lock")
    /\ LET st == threads.stack[t]
           f == Innermost(st)
       IN /\ mutexFree(threads.lock, f.v)
          /\ threads' = [threads EXCEPT !.lock[f.v] = t,
                                        !.stack[t] = Advance(st, [f EXCEPT !.pc = "children"])]
          /\ views' = lockAndSeed(Heap(views), f.v).v
    /\ UNCHANGED <<crashed, op>>

\* one turn of the loop of startLayout over the children
Descend(t) ==
    /\ At(t, {"startLayout"}, "children")
    /\ LET st == threads.stack[t]
           f == Innermost(st)
           V == views[f.v]
       IN threads' = [threads EXCEPT !.stack[t] =
             IF f.i > Len(V.children) THEN Advance(st, [f EXCEPT !.pc = "layout"])
             ELSE IF views[V.children[f.i].item].Position = PositionStatic
             THEN Append(Advance(st, [f EXCEPT !.i = f.i + 1]),
                         Frame("startLayout", V.children[f.i].item, "lock"))
             ELSE Advance(st, [f EXCEPT !.i = f.i + 1])]
    /\ UNCHANGED <<views, crashed, op>>

\* "v.layout(...); v.isDirty = false"
RunLayout(t) ==
    /\ At(t, {"startLayout"}, "layout")
    /\ LET st == threads.stack[t]
           f == Innermost(st)
       IN \E H \in {layoutAndUnlock(Heap(views), f.v)} :
             /\ views' = H.v
             /\ crashed' = IF H.st = "ok" THEN crashed ELSE H.st
             /\ threads' = [threads EXCEPT !.stack[t] = Advance(st, [f EXCEPT !.pc = "unlock"])]
    /\ UNCHANGED op

\* the deferred Unlock, and the return of startLayout
UnlockStep(t) ==
    /\ At(t, {"startLayout"}, "unlock")
    /\ LET st == threads.stack[t]
           f == Innermost(st)
       IN threads' = [threads EXCEPT !.lock[f.v] = 0, !.stack[t] = Return(st)]
    /\ UNCHANGED <<views, crashed, op>>

\* one turn of the loop of Update, or of containerEmbed.Draw, over the
\* children; the return of the call after the last child
VisitChildren(t) ==
    /\ At(t, {"Update", "Draw"}, "children")
    /\ LET st == threads.stack[t]
           f == Innermost(st)
           V == views[f.v]
           skipped == f.fn = "Draw" /\ (V.Hidden \/ V.Display = DisplayNone)
       IN threads' = [threads EXCEPT !.stack[t] =
             IF skipped \/ f.i > Len(V.children) THEN Return(st)
             ELSE Append(Advance(st, [f EXCEPT !.i = f.i + 1]),
                         Frame(f.fn, V.children[f.i].item, "test"))]
    /\ UNCHANGED <<views, crashed, op>>

NextConcurrent ==
    \/ \E t \in Threads, v \in Nodes : Go(t, "Update", v)
    \/ \E t \in Threads, v \in Nodes : Go(t, "Draw", v)
    \/ \E t \in Threads : TestDirty(t)
    \/ \E t \in Threads : LockStep(t)
    \/ \E t \in Threads : Descend(t)
    \/ \E t \in Threads : RunLayout(t)
    \/ \E t \in Threads : UnlockStep(t)
    \/ \E t \in Threads : VisitChildren(t)

SpecConcurrent == Init /\ [][NextConcurrent]_vars

\* goroutine t is inside the layout pass of view n: it has taken the lock of
\* startLayout on n and has not yet returned
InPass(t, n) ==
    \E k \in 1..Len(threads.stack[t]) :
        /\ threads.stack[t][k].fn = "startLayout"
        /\ threads.stack[t][k].v = n
        /\ threads.stack[t][k].pc # "lock"

\* C19: at any time at most one goroutine is inside the layout pass of a view.
C19_MutualExclusion ==
    \A n \in Nodes : Cardinality({t \in Threads : InPass(t, n)}) <= 1

\* one goroutine has laid out the dirty root and not yet released it while
\* another, which also found it dirty, waits for its lock
C19_Witness ==
    \E t \in Threads, u \in Threads :
        /\ t # u
        /\ At(t, {"startLayout"}, "unlock")
        /\ Innermost(threads.stack[t]).v = 1
        /\ At(u, {"startLayout"}, "lock")
        /\ Innermost(threads.stack[u]).v = 1
        /\ Len(views[1].children) > 0
        /\ ~views[1].isDirty

----------------------------------------------------------------------------
(* SpecAlign: a container of every direction, justify, align-items and    *)
(* wrap, holding up to three margined items; it is resized and ticked     *)

\* a 50x50 item with a left margin, a 20x40 item with margins on the other
\* sides, an item without size that grows
Samples ==
    <<[Box(50, 50) EXCEPT !.MarginLeft = F(20)],
      [Box(20, 40) EXCEPT !.MarginTop = F(20), !.MarginBottom = F(10),
                          !.MarginRight = F(10)],
      [ZeroView EXCEPT !.MarginRight = F(50), !.MarginBottom = F(100), !.Grow = One]>>

\* the sizes of the container: a square, a low one, a large square
Sides == {<<100, 100>>, <<100, 40>>, <<1000, 1000>>}

\* the items are drawn from the samples in their order; a column and a
\* wrapping container are 100 wide
InitAlign ==
    /\ \E dir \in {Row, Column}, justify \in JustifyStart..JustifySpaceAround,
          alignItems \in AlignItemStretch..AlignItemCenter, wrap \in {NoWrap, Wrap},
          side \in Sides, k \in 0..MaxItems :
          \E items \in [1..k -> 1..Len(Samples)] :
             /\ \A i \in 1..k, j \in 1..k : i < j => items[i] <= items[j]
             /\ wrap = Wrap => side[1] = 100
             /\ dir = Column => side = <<100, 100>>
             /\ views = Attach([n \in FlowNodes |->
                                IF n = 1
                                THEN [Box(side[1], side[2]) EXCEPT !.Direction = dir,
                                                                   !.Justify = justify,
                                                                   !.AlignItems = alignItems,
                                                                   !.Wrap = wrap]
                                ELSE IF n - 1 <= k THEN Samples[items[n - 1]] ELSE ZeroView],
                            [i \in 1..k |-> <<1, i + 1>>])
    /\ crashed = "no"
    /\ op = NoCall
    /\ threads = NoThreads

NextAlign ==
    \/ DoUpdate(1)
    \/ DoLayout(1)

SpecAlign == InitAlign /\ [][NextAlign]_vars

\* where a rectangle starts on the main and on the cross axis
mainStart(dir, r) == IF dir = Row THEN r[1] ELSE r[2]
crossStart(dir, r) == IF dir = Row THEN r[2] ELSE r[1]
crossExtent(dir, r) == crossSize(dir, Dx(r), Dy(r))

\* the justify rule on the lines e of a pass committed in heap vo
JustifyRule(e, vo) ==
    \A l \in 1..Len(e.lines) :
        LET ks == e.lines[l].child
            n == Len(ks)
            got == [j \in 1..n |-> vo[1].children[e.el[ks[j]]].bounds]
            outer == [j \in 1..n |-> FAdd(mainExtent(e.dir, got[j]), e.mm[ks[j]])]
            leftover == FSub(e.containerMainSize, FSum(outer))
            spacing == CASE e.justify = JustifySpaceBetween -> FDiv(leftover, F(n - 1))
                         [] e.justify = JustifySpaceAround -> FDiv(leftover, F(n))
                         [] OTHER -> Zero
            first == CASE e.justify = JustifyEnd -> leftover
                       [] e.justify = JustifyCenter -> FDiv(leftover, F(2))
                       [] e.justify = JustifySpaceAround -> FDiv(spacing, F(2))
                       [] OTHER -> Zero
            running[j \in 1..n] ==
                IF j = 1 THEN first
                ELSE FAdd(running[j - 1], FAdd(spacing, outer[j - 1]))
        IN \A j \in 1..n :
              mainStart(e.dir, got[j]) = FAdd(running[j], e.mainMargin[ks[j]][1])

\* C21: in every line of a pass of the container, the first child starts at
\* 0 (start, space-between), leftover (end), leftover/2 (center) or half the
\* spacing (space-around), each child is placed at the running offset plus
\* its leading main margin, and the running offset advances by the spacing,
\* the child's main size and both its main margins.
C21_MainAxisAlignment ==
    [][ContainerPass => JustifyRule(passMeasured(passInput(views, 1), 1), views')]_vars

\* a 50x50 child with left margin 20, alone and centred in the 100x100 row
C21_Witness ==
    /\ op.name = "Update" /\ crashed = "no"
    /\ views[1].Direction = Row /\ views[1].Width = F(100) /\ views[1].Height = F(100)
    /\ views[1].Justify = JustifyCenter /\ views[1].AlignItems = AlignItemCenter
    /\ Items(views[1]) = <<2>>
    /\ views[2].MarginLeft = F(20)
    /\ views[1].children[1].bounds = IR(35, 25, 85, 75)

\* the align-items rule on the measurements e of a pass committed in heap vo
AlignItemsRule(e, vo) ==
    \A k \in 1..Len(e.el) :
        LET got == vo[1].children[e.el[k]].bounds
            l == e.lineOf[k]
            lead == e.crossMargin[k][1]
            diff == FSub(FSub(e.lineCross[l], crossExtent(e.dir, got)),
                         FAdd(e.crossMargin[k][1], e.crossMargin[k][2]))
            inLine == FSub(crossStart(e.dir, got), e.lineOff[l])
        IN /\ e.alignItems = AlignItemStart => inLine = lead
           /\ e.alignItems = AlignItemEnd => inLine = FAdd(lead, diff)
           /\ e.alignItems = AlignItemCenter => inLine = FAdd(lead, FDiv(diff, F(2)))

\* C22: in every pass of the container, the cross offset of each flow child
\* inside its line is its leading cross margin (start), that plus line cross
\* size - child cross size - both cross margins (end), or that plus half the
\* difference (center).
C22_CrossAxisAlignment ==
    [][ContainerPass => AlignItemsRule(passMeasured(passInput(views, 1), 1), views')]_vars

\* the line cross size rule on the measurements e of a pass: the size of each
\* line, and the lines stacked one after the other
LineCrossRule(e) ==
    LET nl == Len(e.lines)
        outer(l) == {FAdd(e.crossSize0[e.lines[l].child[j]], e.cmSum[e.lines[l].child[j]]) :
                        j \in 1..Len(e.lines[l].child)}
    IN /\ nl = 1 => e.lineCross[1] = e.containerCrossSize
       /\ nl > 1 => \A l \in 1..nl : e.lineCross[l] = MaxF(outer(l) \cup {Zero})
       /\ e.lineOff[1] = Zero
       /\ \A l \in 2..nl : e.lineOff[l] = FAdd(e.lineOff[l - 1], e.lineCross[l - 1])

\* C23: in every pass of the container (align-content start), a single line
\* has the container's cross size, each of several lines has the largest
\* cross size plus cross margins of its children, and each line starts where
\* the line before it ends.
C23_LineCrossSize ==
    [][ContainerPass => LineCrossRule(passMeasured(passInput(views, 1), 1))]_vars

\* the stretch rule on the measurements e of a pass committed in heap vo
StretchRule(e, vo) ==
    e.alignItems = AlignItemStretch =>
        \A k \in 1..Len(e.el) :
            crossExtent(e.dir, vo[1].children[e.el[k]].bounds) =
                IF e.crossFixed[k] THEN e.crossSize0[k]
                ELSE FSub(e.lineCross[e.lineOf[k]], e.cmSum[k])

\* C24: in every pass of a container with align-items stretch, a flow child
\* without explicit size and without percentage on the cross axis gets the
\* line cross size less its two cross margins, and a child with a fixed
\* cross size keeps it.
C24_Stretch ==
    [][ContainerPass => StretchRule(passMeasured(passInput(views, 1), 1), views')]_vars

\* the shrink rule on the measurements e of a pass: in every line whose bases
\* and main margins reach the container main size, what each child's main
\* size is and what the sizes add up to
ShrinkRule(e) ==
    \A l \in 1..Len(e.lines) :
        LET ks == e.lines[l].child
            n == Len(ks)
            W == e.containerMainSize
            used == FSum([j \in 1..n |-> FAdd(e.size[ks[j]], e.mm[ks[j]])])
            factors == FSum([j \in 1..n |-> e.Shrink[ks[j]]])
            scaled == FSum([j \in 1..n |-> FMul(e.size[ks[j]], e.Shrink[ks[j]])])
            free == IF FLt(factors, One) THEN FMul(FSub(W, used), factors)
                    ELSE FSub(W, used)
            want(k) == IF FGt(e.Shrink[k], Zero)
                       THEN FSub(e.size[k],
                                 FMul(FDiv(FMul(e.size[k], e.Shrink[k]), scaled), FAbs(free)))
                       ELSE e.size[k]
        IN ~FLt(used, W) =>
              /\ \A j \in 1..n : e.mainSize[ks[j]] = want(ks[j])
              /\ ~FLt(factors, One) =>
                    FSum([j \in 1..n |-> FAdd(e.mainSize[ks[j]], e.mm[ks[j]])]) = W

\* C25: in every line of a pass of the container in shrink mode, a child with
\* Shrink = 0 keeps its basis, a child with Shrink > 0 gets basis - (basis x
\* Shrink / sum of basis x Shrink) x |free space|, the free space scaled by
\* the sum of the factors when that is below 1, and when the factors sum to
\* at least 1 the main sizes and main margins of the line add up to the
\* container main size.
C25_ShrinkDistribution ==
    [][ContainerPass => ShrinkRule(passMeasured(passInput(views, 1), 1))]_vars

----------------------------------------------------------------------------
(* the flex basis of percentage children (SpecFlow) *)

\* element k of the pass has a percentage size on the main axis
mainInPct(e, vs, k) ==
    FGt(mainSize(e.dir, vs[e.item[k]].WidthInPct, vs[e.item[k]].HeightInPct), Zero)

\* the basis the later steps use for every percentage child is the main
\* size resolved by this pass, and so are the lines and the choice of mode
FreshBasisRule(e, vs) ==
    /\ \A k \in 1..Len(e.el) : mainInPct(e, vs, k) => e.flexBaseSize[k] = e.size[k]
    /\ e.lines = lineCollection(e.wrap, e.size, e.mm, e.containerMainSize)

\* C26: in every layout pass of the container, the main size resolved for a
\* percentage child in step 2 is the flex basis used by the later steps of
\* the same pass: the lines collected (and their summed main sizes, which
\* decide between grow mode and shrink mode) are those of the freshly
\* resolved sizes.
C26_FreshBasis ==
    [][ContainerPass =>
          \A vi \in {passInput(views, 1)} :
             FreshBasisRule(passMeasured(vi, 1), passResolved(vi, 1))]_vars

----------------------------------------------------------------------------
(* SpecRelayout: a 200x200 root holding a container that takes its size    *)
(* from its items; the items are resized, hidden, attached and detached,   *)
(* the root is marked dirty and ticked                                     *)

\* a scene: the root, the container, the kind of item
RelayoutScenes ==
    { [root |-> [Box(200, 200) EXCEPT !.AlignItems = AlignItemStart],
       box |-> [ZeroView EXCEPT !.Direction = Column],
       bar |-> Box(50, 50)],
      [root |-> [Box(200, 200) EXCEPT !.AlignItems = AlignItemStart],
       box |-> [Box(128, 0) EXCEPT !.Direction = Column, !.Wrap = Wrap],
       bar |-> Box(128, 64)],
      [root |-> [Box(200, 200) EXCEPT !.AlignItems = AlignItemStart],
       box |-> [ZeroView EXCEPT !.WidthInPct = F(50), !.Height = F(60)],
       bar |-> [Box(0, 20) EXCEPT !.WidthInPct = F(50)]] }

InitRelayout ==
    /\ \E scene \in RelayoutScenes, k \in 0..(MaxItems - 1) :
          views = Attach([n \in FlowNodes |->
                             IF n = 1 THEN scene.root
                             ELSE IF n = 2 THEN scene.box
                             ELSE scene.bar],
                         <<<<1, 2>>>> \o [i \in 1..k |-> <<2, i + 2>>])
    /\ crashed = "no"
    /\ op = NoCall
    /\ threads = NoThreads

NextRelayout ==
    \/ DoUpdate(1)
    \/ DoLayout(1)
    \/ \E c \in FlowNodes \ {1, 2} : SetHeight(c, F(80))
    \/ \E c \in FlowNodes \ {1, 2} : SetDisplay(c, DisplayNone)
    \/ \E c \in {n \in FlowNodes \ {1, 2} : ~views[n].hasParent} : DoAddChild(2, c)
    \/ \E c \in FlowNodes \ {1, 2} : DoRemoveChild(2, c)

SpecRelayout == InitRelayout /\ [][NextRelayout]_vars

\* the AddChild calls <<parent, child>> that build the children lists of
\* views 1..n, parents in ascending order
RECURSIVE Edges(_, _)
Edges(vs, n) ==
    IF n = 0 THEN <<>>
    ELSE Edges(vs, n - 1) \o [i \in 1..Len(vs[n].children) |-> <<n, vs[n].children[i].item>>]

\* the same views built from scratch: the same attributes, every view new
\* (nothing laid out, no parent, no child), then the same AddChild calls
FromScratch(vs) ==
    Attach([n \in DOMAIN vs |->
               [vs[n] EXCEPT !.children = <<>>,
                             !.isDirty = FALSE,
                             !.hasParent = FALSE,
                             !.parent = NoView,
                             !.frame = ZR,
                             !.calculatedWidth = Zero,
                             !.calculatedHeight = Zero]],
           Edges(vs, Cardinality(DOMAIN vs)))

\* the names of the operations that change the tree or a style
Mutations == SetterNames \cup {"AddChild", "AddTo", "RemoveChild", "RemoveAll", "PopChild"}

\* C27: when the root has been ticked, a setter or an attach or detach
\* operation has then been applied to a view at any depth, and the root is
\* ticked again, every view of the tree has the frame it has in an identical
\* tree built from scratch and ticked once.
C27_RelayoutEquivalence ==
    [][(/\ op.name \in Mutations /\ op.seq = 2 /\ views[1].frame # ZR
        /\ op'.name = "Update" /\ op'.v = 1 /\ crashed' = "no")
       => \A fresh \in {Update(Heap(FromScratch(views')), 1).v} :
             \A n \in Subtree(views', 1) : views'[n].frame = fresh[n].frame]_vars

\* C28: when the root has been ticked, Layout() has been called on the root
\* and the root is ticked again, every view of the tree keeps its frame and
\* its computed intrinsic width and height.
C28_LayoutFixpoint ==
    [][(/\ op.name = "Layout" /\ op.v = 1 /\ op.seq = 2 /\ views[1].frame # ZR
        /\ op'.name = "Update" /\ op'.v = 1 /\ crashed' = "no")
       => \A n \in Subtree(views', 1) :
             /\ views'[n].frame = views[n].frame
             /\ views'[n].calculatedWidth = views[n].calculatedWidth
             /\ views'[n].calculatedHeight = views[n].calculatedHeight]_vars

----------------------------------------------------------------------------
(* the floor of the resolved sizes *)

\* no flow child of the pass has a negative main size or cross size
FlooredRule(e) ==
    \A k \in 1..Len(e.el) :
       /\ ~FLt(e.mainSize[k], Zero)
       /\ ~FLt(e.crossSize[k], Zero)

\* C29: in every layout pass of a container whose sizes, margins and grow
\* and shrink factors are not negative, the main size and the cross size
\* resolved for every flow child are at least 0.
C29_SizesFloored ==
    [][ContainerPass => FlooredRule(passMeasured(passInput(views, 1), 1))]_vars

----------------------------------------------------------------------------
(* the update handlers *)

\* how many times the update handler of n was invoked by the last call
Invocations(n) == Cardinality({i \in 1..Len(op.handled) : op.handled[i] = n})

\* C30: when Update on a root has returned, the update handler of every
\* view of its tree, the root and the views at any depth, has been invoked
\* exactly once by that call.
C30_HandlerOncePerTick ==
    (/\ op.name = "Update" /\ crashed = "no"
     /\ ~views[op.v].hasParent
     /\ \A n \in Nodes : Cardinality(Occurrences(views, n)) <= 1)
       => \A n \in Subtree(views, op.v) : Invocations(n) = 1

====
